---- MODULE Spec2Model ----
(***************************************************************************)
(* Hermes2D: selective assembler (sparse-structure cache), weak-form      *)
(* block sparsity, H1 space DOF assignment and baselist merging.          *)
(*                                                                         *)
(* The specifications share the variables of this module:                 *)
(*   SpecAsm    - the sparse-structure cache of the selective assembler   *)
(*   SpecStruct - one structure pass: WeakForm::get_blocks, registration  *)
(*                of the nonzero positions, form_to_be_assembled          *)
(*   SpecMerge  - H1Space::merge_baselists / output_component             *)
(*   SpecDof    - H1Space::assign_vertex_dofs / edge / bubble and the     *)
(*                baselist of a hanging vertex                            *)
(*   SpecVec    - the vector part of the sparse-structure cache           *)
(*   SpecSelect - form_to_be_assembled of the six kinds of forms          *)
(*   SpecReg    - WeakForm::add_matrix_form ... add_vector_form_DG        *)
(*   SpecMarkers, SpecBlocks, SpecClone - processFormMarkers, get_blocks  *)
(*                and cloneMembers of WeakForm                            *)
(*   SpecCtor, SpecStage, SpecRK, SpecRKLive - RungeKutta: constructor,   *)
(*                create_stage_wf and the Newton loop of rk_time_step     *)
(*   SpecDG     - the neighbour registration of the structure pass        *)
(*   SpecSegments, SpecSons - the edge infos of update_constrained_nodes  *)
(*   SpecFlame  - the time loop of the flame example                      *)
(*   SpecScaling, SpecCache - the cache under Form::setScalingFactor and  *)
(*                under repeated set_spaces calls                         *)
(*   SpecBCs    - EssentialBCs: the add operations and the marker cache   *)
(* Each specification leaves the variables of the others untouched.       *)
(***************************************************************************)
EXTENDS Integers, Sequences, FiniteSets, TLC

VARIABLES
  \* ---- DiscreteProblemSelectiveAssembler members
  sp_seq,                    \* int* sp_seq; <<>> stands for nullptr
  spaces_size,               \* unsigned spaces_size
  matrix_structure_reusable, \* bool
  previous_mat,              \* SparseMatrix* (0 = nullptr)
  vector_structure_reusable, \* bool
  previous_rhs,              \* Vector* (0 = nullptr)
  wf,                        \* the weak formulation set (a record), NoWf before
  force_diagonal_blocks,     \* bool member of the matrix/vector mixin
  block_weights,             \* Table* of the RK mixin (<<>> = nullptr)
  \* ---- collaborators of the assembler
  space_seq,                 \* Space::get_seq() of each space
  mats,                      \* the sparse matrices (backend state)
  vecs,                      \* the vectors (size)
  \* ---- observation of the calls
  last_call,                 \* what the prepare_sparse_structure call just made did
                             \* (NoCall after any other operation)
  seq_at_set,                \* seq each space had at the previous set_spaces call
  seq_diff_seen,             \* a set_spaces call saw a changed seq since the last
                             \* completed prepare call with a matrix
  done_mat,                  \* matrix of the last completed prepare call (-1: none)
  assembled,                 \* (form, state) pairs the value pass evaluates
  \* ---- H1Space::merge_baselists
  mg,
  \* ---- H1Space DOF assignment
  sp,
  \* ---- form_to_be_assembled on one form and one traversal state
  sel,
  \* ---- WeakForm: the registry of forms and the add operation just made
  reg,
  \* ---- RungeKutta: one rk_time_step call
  rk

asmVars == <<sp_seq, spaces_size, matrix_structure_reusable, previous_mat,
             vector_structure_reusable, previous_rhs, wf, force_diagonal_blocks,
             block_weights, space_seq, mats, vecs, last_call, seq_at_set,
             seq_diff_seen, done_mat, assembled>>

vars == <<sp_seq, spaces_size, matrix_structure_reusable, previous_mat,
          vector_structure_reusable, previous_rhs, wf, force_diagonal_blocks,
          block_weights, space_seq, mats, vecs, last_call, seq_at_set,
          seq_diff_seen, done_mat, assembled, mg, sp, sel, reg, rk>>

(***************************************************************************)
(* Bounds of the model.                                                    *)
(***************************************************************************)
MaxSeq == 1        \* space sequence identifiers run over 0..MaxSeq
MaxLen == 2        \* longest input baselist of merge_baselists
MaxDof == 2        \* largest DOF index in an input baselist
MaxEdgeN == 2      \* most own DOFs of the constraining edge node
MaxOrder == 3      \* largest polynomial order of an element

Abs(x) == IF x < 0 THEN -x ELSE x

Min(a, b) == IF a < b THEN a ELSE b

\* Scaling factors are fixed-point numbers; the threshold is HermesSqrtEpsilon
\* units, so that values below, at and above the threshold exist.
HermesSqrtEpsilon == 2

(***************************************************************************)
(* Collaborators of the assembler: spaces, mesh, traversal states.        *)
(***************************************************************************)
Mats == {1, 2}             \* matrix objects (0 is nullptr)
Vecs == {1, 2}             \* vector objects (0 is nullptr)
Elems == {1, 2}            \* the two active elements, neighbours across one edge

NumSpaces == Len(space_seq)

\* Space k (0-based as in the code) keeps its sequence identifier at
\* space_seq[k + 1].
get_seq(k) == space_seq[k + 1]

\* The DOF numbering a space has under a given sequence identifier: the local
\* assembly list of each element (-1 is a constrained / essential DOF).
LocalAsmList(k, elem, seq) ==
  IF k = 0
  THEN IF seq % 2 = 0
       THEN (IF elem = 1 THEN <<0, 1, -1>> ELSE <<1, 2>>)
       ELSE (IF elem = 1 THEN <<0, 1>> ELSE <<1, 2, 3>>)
  ELSE IF seq % 2 = 0
       THEN (IF elem = 1 THEN <<0, -1>> ELSE <<0, 1>>)
       ELSE (IF elem = 1 THEN <<0>> ELSE <<0, 1, 2>>)

LocalNdof(k, seq) ==
  IF k = 0 THEN (IF seq % 2 = 0 THEN 3 ELSE 4)
           ELSE (IF seq % 2 = 0 THEN 2 ELSE 3)

\* Space::assign_dofs(spaces) numbers the spaces one after the other.
FirstDof(k) == IF k = 0 THEN 0 ELSE LocalNdof(0, get_seq(0))

get_num_dofs ==
  IF NumSpaces = 1 THEN LocalNdof(0, get_seq(0))
  ELSE LocalNdof(0, get_seq(0)) + LocalNdof(1, get_seq(1))

get_element_assembly_list(k, elem) ==
  LET l == LocalAsmList(k, elem, get_seq(k))
  IN  [x \in 1..Len(l) |-> IF l[x] < 0 THEN l[x] ELSE l[x] + FirstDof(k)]

\* The space (block) a global DOF belongs to.
SpaceOfDof(d) == IF d < FirstDof(1) \/ NumSpaces = 1 THEN 0 ELSE 1

\* Traversal states: e[k + 1] is the element of space k (0 = nullptr), marker
\* the marker of the representative element, edge_marker the marker of the
\* active edge.  With interface forms every space has an element in every
\* state (the neighbour search dereferences it).
StateList(ns, dg) ==
  IF ns = 1
  THEN << [e |-> <<1>>, marker |-> 1, edge_marker |-> 1],
          [e |-> <<2>>, marker |-> 2, edge_marker |-> 0] >>
  ELSE IF dg
       THEN << [e |-> <<1, 1>>, marker |-> 1, edge_marker |-> 1],
               [e |-> <<2, 2>>, marker |-> 2, edge_marker |-> 0] >>
       ELSE << [e |-> <<1, 1>>, marker |-> 1, edge_marker |-> 1],
               [e |-> <<2, 0>>, marker |-> 2, edge_marker |-> 0] >>

\* NeighborSearch::get_neighbors over the non-boundary edges of an element.
Neighbors(elem) == IF elem = 1 THEN {2} ELSE {1}

(***************************************************************************)
(* Weak forms.                                                             *)
(***************************************************************************)
NoWf == [neq |-> 0, mfvol |-> <<>>, mfsurf |-> <<>>, mfDG |-> <<>>, vfDG |-> <<>>]

MF(i, j, sym, sf, everywhere, areas) ==
  [i |-> i, j |-> j, sym |-> sym, scaling_factor |-> sf,
   assembleEverywhere |-> everywhere, areas_internal |-> areas]

\* The weak formulations the cache protocol is exercised with.
WfSmall(neq) ==
  IF neq = 1
  THEN { [neq |-> 1, mfvol |-> << MF(0, 0, 0, 3, TRUE, <<>>) >>,
          mfsurf |-> <<>>, mfDG |-> <<>>, vfDG |-> <<>>],
         [neq |-> 1, mfvol |-> << MF(0, 0, 0, 0, TRUE, <<>>) >>,
          mfsurf |-> <<>>, mfDG |-> << MF(0, 0, 0, 3, TRUE, <<>>) >>,
          vfDG |-> <<>>] }
  ELSE { [neq |-> 2,
          mfvol |-> << MF(0, 0, 0, 3, TRUE, <<>>), MF(1, 0, 1, 3, TRUE, <<>>) >>,
          mfsurf |-> <<>>, mfDG |-> <<>>, vfDG |-> <<>>],
         [neq |-> 2,
          mfvol |-> << MF(1, 1, 0, 3, TRUE, <<>>) >>,
          mfsurf |-> <<>>, mfDG |-> <<>>, vfDG |-> <<>>] }

\* The weak formulations a caller registers, for one and for two equations.
WfCatalogue(neq) ==
  IF neq = 1
  THEN { [neq |-> 1, mfvol |-> << MF(0, 0, 0, 0, TRUE, <<>>) >>,
          mfsurf |-> <<>>, mfDG |-> <<>>, vfDG |-> <<>>],
         [neq |-> 1, mfvol |-> << MF(0, 0, 1, 3, FALSE, <<1>>) >>,
          mfsurf |-> <<>>, mfDG |-> <<>>, vfDG |-> <<>>],
         [neq |-> 1, mfvol |-> << MF(0, 0, 0, 0, TRUE, <<>>) >>,
          mfsurf |-> <<>>, mfDG |-> << MF(0, 0, 0, -3, TRUE, <<>>) >>,
          vfDG |-> <<>>] }
  ELSE { [neq |-> 2,
          mfvol |-> << MF(0, 0, 0, 3, TRUE, <<>>), MF(0, 1, 0, 0, TRUE, <<>>) >>,
          mfsurf |-> <<>>, mfDG |-> <<>>, vfDG |-> <<>>],
         [neq |-> 2,
          mfvol |-> << MF(1, 0, 1, -3, TRUE, <<>>), MF(0, 1, 0, 0, FALSE, <<2>>) >>,
          mfsurf |-> <<>>, mfDG |-> <<>>, vfDG |-> <<>>],
         [neq |-> 2,
          mfvol |-> << MF(0, 0, 0, 0, TRUE, <<>>), MF(1, 1, 0, 2, TRUE, <<>>) >>,
          mfsurf |-> << MF(1, 0, 0, 3, TRUE, <<>>) >>,
          mfDG |-> <<>>, vfDG |-> <<>>],
         [neq |-> 2,
          mfvol |-> << MF(1, 1, 0, 0, TRUE, <<>>), MF(1, 0, 0, 1, TRUE, <<>>) >>,
          mfsurf |-> <<>>,
          mfDG |-> << MF(0, 1, 0, 3, TRUE, <<>>) >>, vfDG |-> <<>>] }

is_DG(w) == ~(w.mfDG = <<>> /\ w.vfDG = <<>>)

\* WeakForm::get_blocks: the neq x neq block-sparsity table.  blocks[a][b] is
\* set by force_diagonal_blocks on the diagonal, by every form of block (a,b)
\* whose scaling factor is above the threshold, and by the transposed block of
\* such a volume form with sym # 0.
MarksTransposed_bug_symmetric_only(form) == form.sym = 1

\* Line 766: if (mfvol[i]->sym), true of a symmetric and of an antisymmetric
\* volume form.
MarksTransposed(form) == form.sym # 0

get_blocks_bug_no_threshold(w, force_diagonal) ==
  [a \in 0..(w.neq - 1) |-> [b \in 0..(w.neq - 1) |->
     \/ (force_diagonal /\ a = b)
     \/ \E x \in 1..Len(w.mfvol) :
          \/ (w.mfvol[x].i = a /\ w.mfvol[x].j = b)
          \/ (w.mfvol[x].sym # 0 /\ w.mfvol[x].j = a /\ w.mfvol[x].i = b)
     \/ \E x \in 1..Len(w.mfsurf) : w.mfsurf[x].i = a /\ w.mfsurf[x].j = b
     \/ \E x \in 1..Len(w.mfDG) : w.mfDG[x].i = a /\ w.mfDG[x].j = b ]]

get_blocks(w, force_diagonal) ==
  [a \in 0..(w.neq - 1) |-> [b \in 0..(w.neq - 1) |->
     \/ (force_diagonal /\ a = b)
     \/ \E x \in 1..Len(w.mfvol) :
          \/ (Abs(w.mfvol[x].scaling_factor) > HermesSqrtEpsilon
               /\ w.mfvol[x].i = a /\ w.mfvol[x].j = b)
          \/ (MarksTransposed(w.mfvol[x])
               /\ Abs(w.mfvol[x].scaling_factor) > HermesSqrtEpsilon
               /\ w.mfvol[x].j = a /\ w.mfvol[x].i = b)
     \/ \E x \in 1..Len(w.mfsurf) :
          Abs(w.mfsurf[x].scaling_factor) > HermesSqrtEpsilon
            /\ w.mfsurf[x].i = a /\ w.mfsurf[x].j = b
     \/ \E x \in 1..Len(w.mfDG) :
          Abs(w.mfDG[x].scaling_factor) > HermesSqrtEpsilon
            /\ w.mfDG[x].i = a /\ w.mfDG[x].j = b ]]

(***************************************************************************)
(* Selectivity predicates.                                                 *)
(***************************************************************************)
\* Table::get_A of the block-weight table; NoBlockWeights is nullptr.
NoBlockWeights == <<>>

BlockWeightTables == { NoBlockWeights, << <<4, 0>>, <<4, 4>> >> }

RK_original_spaces_count == 1

get_A(t, a, b) == t[a + 1][b + 1]

\* form_to_be_assembled(MatrixForm*, state)
form_to_be_assembled_MatrixForm(form, current_state) ==
  IF current_state.e[form.i + 1] # 0 /\ current_state.e[form.j + 1] # 0
  THEN IF Abs(form.scaling_factor) < HermesSqrtEpsilon
       THEN FALSE
       ELSE IF block_weights # NoBlockWeights
                 /\ Abs(get_A(block_weights,
                              form.i \div RK_original_spaces_count,
                              form.j \div RK_original_spaces_count))
                      < HermesSqrtEpsilon
            THEN FALSE
            ELSE TRUE
  ELSE FALSE

\* form_to_be_assembled(MatrixFormVol*, state)
form_to_be_assembled_MatrixFormVol(form, current_state) ==
  IF ~form_to_be_assembled_MatrixForm(form, current_state)
  THEN FALSE
  ELSE IF form.assembleEverywhere
       THEN TRUE
       ELSE \E ss \in 1..Len(form.areas_internal) :
              form.areas_internal[ss] = current_state.marker

\* form_to_be_assembled(MatrixFormSurf*, state)
form_to_be_assembled_MatrixFormSurf(form, current_state) ==
  IF ~form_to_be_assembled_MatrixForm(form, current_state)
  THEN FALSE
  ELSE IF current_state.edge_marker = 0
       THEN FALSE
       ELSE IF form.assembleEverywhere
            THEN TRUE
            ELSE \E ss \in 1..Len(form.areas_internal) :
                   form.areas_internal[ss] = current_state.edge_marker

\* form_to_be_assembled(MatrixFormDG*, state)
form_to_be_assembled_MatrixFormDG(form, current_state) ==
  form_to_be_assembled_MatrixForm(form, current_state)

\* A vector form: a form without the column component j.
VF(i, sf, everywhere, areas) ==
  [i |-> i, scaling_factor |-> sf, assembleEverywhere |-> everywhere,
   areas_internal |-> areas]

\* form_to_be_assembled(VectorForm*, state)
form_to_be_assembled_VectorForm(form, current_state) ==
  IF current_state.e[form.i + 1] = 0
  THEN FALSE
  ELSE IF Abs(form.scaling_factor) < HermesSqrtEpsilon
       THEN FALSE
       ELSE TRUE

\* form_to_be_assembled(VectorFormVol*, state)
form_to_be_assembled_VectorFormVol(form, current_state) ==
  IF ~form_to_be_assembled_VectorForm(form, current_state)
  THEN FALSE
  ELSE IF form.assembleEverywhere
       THEN TRUE
       ELSE \E ss \in 1..Len(form.areas_internal) :
              form.areas_internal[ss] = current_state.marker

VectorSurfOnMarkedEdge_bug_any_edge(current_state) == TRUE

\* Line 380: a surface form needs an edge with a marker other than 0.
VectorSurfOnMarkedEdge(current_state) == current_state.edge_marker # 0

\* form_to_be_assembled(VectorFormSurf*, state)
form_to_be_assembled_VectorFormSurf(form, current_state) ==
  IF ~form_to_be_assembled_VectorForm(form, current_state)
  THEN FALSE
  ELSE IF ~VectorSurfOnMarkedEdge(current_state)
       THEN FALSE
       ELSE IF form.assembleEverywhere
            THEN TRUE
            ELSE \E ss \in 1..Len(form.areas_internal) :
                   form.areas_internal[ss] = current_state.edge_marker

\* form_to_be_assembled(VectorFormDG*, state)
form_to_be_assembled_VectorFormDG(form, current_state) ==
  form_to_be_assembled_VectorForm(form, current_state)

(***************************************************************************)
(* prepare_sparse_structure: registration of the nonzero positions.       *)
(***************************************************************************)
PreAddPairs_bug_no_skip(dofs_m, dofs_n) ==
  { <<dofs_m[x], dofs_n[y]>> : x \in 1..Len(dofs_m), y \in 1..Len(dofs_n) }

\* The pre_add_ij calls of one (row list, column list) pair: entries with a
\* negative DOF are skipped.
PreAddPairs(dofs_m, dofs_n) ==
  { <<dofs_m[x], dofs_n[y]>> : x \in {u \in 1..Len(dofs_m) : dofs_m[u] >= 0},
                               y \in {u \in 1..Len(dofs_n) : dofs_n[u] >= 0} }

RegisterLocal_bug_all_blocks(current_state, blocks) ==
  UNION { IF current_state.e[m + 1] # 0 /\ current_state.e[n + 1] # 0
          THEN PreAddPairs(get_element_assembly_list(m, current_state.e[m + 1]),
                           get_element_assembly_list(n, current_state.e[n + 1]))
          ELSE {} : m \in 0..(spaces_size - 1), n \in 0..(spaces_size - 1) }

\* Element-local registration of one traversal state.
RegisterLocal(current_state, blocks) ==
  IF spaces_size = 1
  THEN IF blocks[0][0] /\ current_state.e[1] # 0
       THEN PreAddPairs(get_element_assembly_list(0, current_state.e[1]),
                        get_element_assembly_list(0, current_state.e[1]))
       ELSE {}
  ELSE UNION { IF blocks[m][n] /\ current_state.e[m + 1] # 0
                               /\ current_state.e[n + 1] # 0
               THEN PreAddPairs(get_element_assembly_list(m, current_state.e[m + 1]),
                                get_element_assembly_list(n, current_state.e[n + 1]))
               ELSE {} : m \in 0..(spaces_size - 1), n \in 0..(spaces_size - 1) }

\* Lines 98-115: the neighbours found for the element of one space.  The
\* element of a space that has none in this state is a null pointer, which
\* the search and the bnd test dereference: what is read then is not
\* determined (the set read).
NeighborsFound(elem, read) == IF elem = 0 THEN read ELSE Neighbors(elem)

\* Lines 118-156: registration across the non-boundary edges.
RegisterDGOver(current_state, blocks, read) ==
  IF is_DG(wf) /\ wf.mfDG # <<>>
  THEN UNION { UNION { IF (blocks[m][el] \/ blocks[el][m]) /\ current_state.e[m + 1] # 0
                       THEN LET am == get_element_assembly_list(m, current_state.e[m + 1])
                                an == get_element_assembly_list(el, neigh)
                            IN  (IF blocks[m][el] THEN PreAddPairs(am, an) ELSE {})
                                  \cup
                                (IF blocks[el][m] THEN PreAddPairs(an, am) ELSE {})
                       ELSE {} : neigh \in NeighborsFound(current_state.e[el + 1], read) }
               : m \in 0..(spaces_size - 1), el \in 0..(spaces_size - 1) }
  ELSE {}

\* Registration across the non-boundary edges when the weak form has
\* interface matrix forms, in a state where every space has an element.
RegisterDG(current_state, blocks) == RegisterDGOver(current_state, blocks, {})

\* The positions the element-local pass and the pass over the neighbours
\* register in the first n traversal states.
LocalPositions(states, n) ==
  UNION { RegisterLocal(states[x], get_blocks(wf, force_diagonal_blocks)) : x \in 1..n }

DGPositions(states, n) ==
  UNION { RegisterDG(states[x], get_blocks(wf, force_diagonal_blocks)) : x \in 1..n }

\* The positions registered by the first n traversal states.
RegisteredPositions(states, n) ==
  LET blocks == get_blocks(wf, force_diagonal_blocks)
  IN  UNION { RegisterDG(states[x], blocks) \cup RegisterLocal(states[x], blocks)
              : x \in 1..n }

CurrentStates == StateList(spaces_size, is_DG(wf) /\ wf.mfDG # <<>>)

(***************************************************************************)
(* Sparse matrix / vector backend.                                         *)
(***************************************************************************)
EmptyMat == [status |-> "empty", size |-> 0, pattern |-> {}]

\* free(); prealloc(ndof); pre_add_ij(...)*; alloc()
BuiltMat(ndof, pattern) == [status |-> "alloc", size |-> ndof, pattern |-> pattern]

\* free(); prealloc(ndof); pre_add_ij(...)* and no alloc()
PartialMat(ndof, pattern) == [status |-> "prealloc", size |-> ndof, pattern |-> pattern]

NotAssembled == [run |-> FALSE, pairs |-> {}]

NoCall == [mat |-> 0, path |-> "none", mat_ops |-> <<>>, rhs_ops |-> <<>>,
           prior_mat |-> -1, seq_diff |-> FALSE, quiet |-> FALSE,
           local |-> {}, dg |-> {},
           rhs |-> 0, prior_rhs |-> 0, rhs_reusable |-> FALSE, rhs_size |-> 0]

\* The previous operation was a prepare_sparse_structure call that returned.
Quiet == last_call.path \in {"zero", "rebuild", "nomat"}

(***************************************************************************)
(* prepare_sparse_structure(mat, rhs, spaces, states, num_states)         *)
(***************************************************************************)
ZeroOnlyPath_bug_always(mat) == mat # 0

\* The two conditions of the code, lines 46 and 57.
ZeroOnlyPath(mat) == matrix_structure_reusable /\ mat # 0 /\ mat = previous_mat

RebuildPath_bug_always(mat) == mat # 0

RebuildPath(mat) == (~matrix_structure_reusable \/ mat # previous_mat) /\ mat # 0

\* Lines 49-55: the vector of the previous call is allocated if empty, else zeroed.
RhsReuse(rhs) == vector_structure_reusable /\ rhs # 0 /\ rhs = previous_rhs

RhsAlloc_bug_always(rhs) == rhs # 0

\* Lines 236-240.
RhsAlloc(rhs) == (~vector_structure_reusable \/ rhs # previous_rhs) /\ rhs # 0

RhsOps(rhs, completed) ==
  (IF RhsReuse(rhs)
   THEN (IF vecs[rhs] = 0 THEN <<"alloc">> ELSE <<"zero">>) ELSE <<>>)
  \o (IF completed /\ RhsAlloc(rhs) THEN <<"alloc">> ELSE <<>>)

VecsAfter(rhs, completed) ==
  IF rhs # 0 /\ ((RhsReuse(rhs) /\ vecs[rhs] = 0) \/ (completed /\ RhsAlloc(rhs)))
  THEN [vecs EXCEPT ![rhs] = get_num_dofs]
  ELSE vecs

\* A call that returns.
prepare_sparse_structure(mat, rhs) ==
  /\ spaces_size > 0
  /\ wf # NoWf
  /\ LET states == CurrentStates
         positions == RegisteredPositions(states, Len(states))
     IN /\ mats' = IF RebuildPath(mat)
                   THEN [mats EXCEPT ![mat] = BuiltMat(get_num_dofs, positions)]
                   ELSE mats
        /\ last_call' =
             [mat |-> mat,
              path |-> IF RebuildPath(mat) THEN "rebuild"
                       ELSE IF ZeroOnlyPath(mat) THEN "zero" ELSE "nomat",
              mat_ops |-> (IF ZeroOnlyPath(mat) THEN <<"zero">> ELSE <<>>)
                          \o (IF RebuildPath(mat)
                              THEN <<"free", "prealloc">>
                                   \o (IF positions # {} THEN <<"pre_add_ij">> ELSE <<>>)
                                   \o <<"alloc">>
                              ELSE <<>>),
              rhs_ops |-> RhsOps(rhs, TRUE),
              prior_mat |-> done_mat, seq_diff |-> seq_diff_seen, quiet |-> Quiet,
              local |-> IF RebuildPath(mat) THEN LocalPositions(states, Len(states)) ELSE {},
              dg |-> IF RebuildPath(mat) THEN DGPositions(states, Len(states)) ELSE {},
              rhs |-> rhs, prior_rhs |-> previous_rhs,
              rhs_reusable |-> vector_structure_reusable,
              rhs_size |-> IF rhs # 0 THEN vecs[rhs] ELSE 0]
  /\ matrix_structure_reusable' = IF RebuildPath(mat) THEN TRUE
                                  ELSE matrix_structure_reusable
  /\ vector_structure_reusable' = IF RhsAlloc(rhs) THEN TRUE
                                  ELSE vector_structure_reusable
  /\ vecs' = VecsAfter(rhs, TRUE)
  /\ previous_mat' = mat
  /\ previous_rhs' = rhs
  /\ seq_diff_seen' = IF mat # 0 THEN FALSE ELSE seq_diff_seen
  /\ done_mat' = mat
  /\ UNCHANGED <<sp_seq, spaces_size, wf, force_diagonal_blocks, block_weights,
                 space_seq, seq_at_set, assembled, mg, sp, sel, reg, rk>>

\* A call that ends in an exception during the rebuild: malloc_with_check of
\* the assembly lists (line 64, n = 0) or the assembly list of traversal state
\* n + 1 (line 80) throws.  Lines 60-62 have run, lines 228-243 have not.
prepare_sparse_structure_throws(mat, rhs, n) ==
  /\ spaces_size > 0
  /\ wf # NoWf
  /\ RebuildPath(mat)
  /\ n < Len(CurrentStates)
  /\ LET positions == RegisteredPositions(CurrentStates, n)
     IN /\ mats' = [mats EXCEPT ![mat] = PartialMat(get_num_dofs, positions)]
        /\ last_call' =
             [mat |-> mat, path |-> "failed",
              mat_ops |-> <<"free", "prealloc">>
                          \o (IF positions # {} THEN <<"pre_add_ij">> ELSE <<>>),
              rhs_ops |-> RhsOps(rhs, FALSE),
              prior_mat |-> done_mat, seq_diff |-> seq_diff_seen, quiet |-> Quiet,
              local |-> LocalPositions(CurrentStates, n),
              dg |-> DGPositions(CurrentStates, n),
              rhs |-> rhs, prior_rhs |-> previous_rhs,
              rhs_reusable |-> vector_structure_reusable,
              rhs_size |-> IF rhs # 0 THEN vecs[rhs] ELSE 0]
  /\ matrix_structure_reusable' = TRUE
  /\ vecs' = VecsAfter(rhs, FALSE)
  /\ UNCHANGED <<vector_structure_reusable, previous_mat, previous_rhs,
                 seq_diff_seen, done_mat>>
  /\ UNCHANGED <<sp_seq, spaces_size, wf, force_diagonal_blocks, block_weights,
                 space_seq, seq_at_set, assembled, mg, sp, sel, reg, rk>>

(***************************************************************************)
(* set_spaces, set_weak_formulation and the value pass.                    *)
(***************************************************************************)
\* Lines 259-269: the flags are cleared when a stored identifier differs.
SeqDiffers_bug_never(k) == FALSE

SeqDiffers(k) == get_seq(k) # sp_seq[k + 1]

set_spaces ==
  /\ IF sp_seq = <<>>
     THEN /\ spaces_size' = NumSpaces
          /\ sp_seq' = [k \in 1..NumSpaces |-> -1]
          /\ UNCHANGED <<matrix_structure_reusable, vector_structure_reusable>>
     ELSE /\ sp_seq' = [k \in 1..spaces_size |-> get_seq(k - 1)]
          /\ matrix_structure_reusable' =
               IF \E k \in 0..(spaces_size - 1) : SeqDiffers(k)
               THEN FALSE ELSE matrix_structure_reusable
          /\ vector_structure_reusable' =
               IF \E k \in 0..(spaces_size - 1) : SeqDiffers(k)
               THEN FALSE ELSE vector_structure_reusable
          /\ UNCHANGED spaces_size
  /\ seq_diff_seen' = (seq_diff_seen \/ (seq_at_set # <<>> /\ seq_at_set # space_seq))
  /\ seq_at_set' = space_seq
  /\ last_call' = NoCall
  /\ UNCHANGED <<previous_mat, previous_rhs, wf, force_diagonal_blocks, block_weights,
                 space_seq, mats, vecs, done_mat, assembled, mg, sp, sel, reg, rk>>

set_weak_formulation(wf_) ==
  /\ wf' = wf_
  /\ matrix_structure_reusable' = FALSE
  /\ vector_structure_reusable' = FALSE
  /\ last_call' = NoCall
  /\ assembled' = NotAssembled
  /\ UNCHANGED <<sp_seq, spaces_size, previous_mat, previous_rhs,
                 force_diagonal_blocks, block_weights, space_seq, mats, vecs,
                 seq_at_set, seq_diff_seen, done_mat, mg, sp, sel, reg, rk>>

\* A space is re-numbered (assign_dofs after a mesh or order change): its
\* sequence identifier grows.
SpaceRenumbered(k) ==
  /\ get_seq(k) < MaxSeq
  /\ space_seq' = [space_seq EXCEPT ![k + 1] = @ + 1]
  /\ last_call' = NoCall
  /\ UNCHANGED <<sp_seq, spaces_size, matrix_structure_reusable, previous_mat,
                 vector_structure_reusable, previous_rhs, wf, force_diagonal_blocks,
                 block_weights, mats, vecs, seq_at_set, seq_diff_seen,
                 done_mat, assembled, mg, sp, sel, reg, rk>>

\* The value pass over the matrix volume forms: the (form, state) pairs for
\* which form_to_be_assembled holds.
AssembleMatrixVolForms ==
  /\ spaces_size > 0
  /\ wf # NoWf
  /\ ~assembled.run
  /\ assembled' =
       [run |-> TRUE,
        pairs |-> { fx \in (1..Len(wf.mfvol)) \X (1..Len(CurrentStates)) :
                      form_to_be_assembled_MatrixFormVol(wf.mfvol[fx[1]],
                                                         CurrentStates[fx[2]]) }]
  /\ UNCHANGED <<sp_seq, spaces_size, matrix_structure_reusable, previous_mat,
                 vector_structure_reusable, previous_rhs, wf, force_diagonal_blocks,
                 block_weights, space_seq, mats, vecs, last_call, seq_at_set,
                 seq_diff_seen, done_mat, mg, sp, sel, reg, rk>>

(***************************************************************************)
(* Specification of the assembler.                                         *)
(***************************************************************************)
MergeIdle == [pc |-> "idle"]

DofIdle == [pc |-> "idle"]

SelIdle == [pc |-> "idle"]

RegIdle == [pc |-> "idle"]

RkIdle == [pc |-> "idle"]

InitAsm ==
  /\ sp_seq = <<>>
  /\ spaces_size = 0
  /\ matrix_structure_reusable = FALSE
  /\ previous_mat = 0
  /\ vector_structure_reusable = FALSE
  /\ previous_rhs = 0
  /\ wf = NoWf
  /\ force_diagonal_blocks = FALSE
  /\ block_weights = NoBlockWeights
  /\ space_seq \in {<<0>>, <<0, 0>>}
  /\ mats = [m \in Mats |-> EmptyMat]
  /\ vecs = [r \in Vecs |-> 0]
  /\ last_call = NoCall
  /\ seq_at_set = <<>>
  /\ seq_diff_seen = FALSE
  /\ done_mat = -1
  /\ assembled = NotAssembled
  /\ mg = MergeIdle
  /\ sp = DofIdle
  /\ sel = SelIdle
  /\ reg = RegIdle
  /\ rk = RkIdle

NextAsm ==
  \/ \E mat \in Mats \cup {0} : prepare_sparse_structure(mat, 0)
  \/ \E mat \in Mats : prepare_sparse_structure_throws(mat, 0, 0)
  \/ set_spaces
  \/ \E w \in WfSmall(NumSpaces) : set_weak_formulation(w)
  \/ \E k \in 0..(NumSpaces - 1) : SpaceRenumbered(k)

SpecAsm == InitAsm /\ [][NextAsm]_vars

(***************************************************************************)
(* The cache and the scaling factors of the forms: the weak formulation    *)
(* the assembler holds is shared with its owner, who may call              *)
(* Form::setScalingFactor on a form between two assemblies.                *)
(***************************************************************************)
\* Form::setScalingFactor on the x-th matrix volume form.
setScalingFactor(x, scalingFactor) ==
  /\ wf # NoWf
  /\ x \in 1..Len(wf.mfvol)
  /\ wf' = [wf EXCEPT !.mfvol[x].scaling_factor = scalingFactor]
  /\ last_call' = NoCall
  /\ assembled' = NotAssembled
  /\ UNCHANGED <<sp_seq, spaces_size, matrix_structure_reusable, previous_mat,
                 vector_structure_reusable, previous_rhs, force_diagonal_blocks,
                 block_weights, space_seq, mats, vecs, seq_at_set, seq_diff_seen,
                 done_mat, mg, sp, sel, reg, rk>>

NextScaling ==
  \/ \E mat \in Mats : prepare_sparse_structure(mat, 0)
  \/ set_spaces
  \/ \E w \in WfSmall(NumSpaces) : set_weak_formulation(w)
  \/ \E x \in 1..2 : \E scalingFactor \in {0, 3} : setScalingFactor(x, scalingFactor)

SpecScaling == InitAsm /\ [][NextScaling]_vars

(***************************************************************************)
(* The cache and set_spaces: a weak formulation is set, the spaces are     *)
(* set, re-numbered and set again between the structure passes.            *)
(***************************************************************************)
InitCache ==
  /\ sp_seq = <<>>
  /\ spaces_size = 0
  /\ matrix_structure_reusable = FALSE
  /\ previous_mat = 0
  /\ vector_structure_reusable = FALSE
  /\ previous_rhs = 0
  /\ space_seq \in {<<0>>, <<0, 0>>}
  /\ wf \in WfSmall(Len(space_seq))
  /\ force_diagonal_blocks = FALSE
  /\ block_weights = NoBlockWeights
  /\ mats = [m \in Mats |-> EmptyMat]
  /\ vecs = [r \in Vecs |-> 0]
  /\ last_call = NoCall
  /\ seq_at_set = <<>>
  /\ seq_diff_seen = FALSE
  /\ done_mat = -1
  /\ assembled = NotAssembled
  /\ mg = MergeIdle
  /\ sp = DofIdle
  /\ sel = SelIdle
  /\ reg = RegIdle
  /\ rk = RkIdle

NextCache ==
  \/ \E mat \in Mats : \E rhs \in {0, 1} : prepare_sparse_structure(mat, rhs)
  \/ set_spaces
  \/ \E k \in 0..(NumSpaces - 1) : SpaceRenumbered(k)

SpecCache == InitCache /\ [][NextCache]_vars

(***************************************************************************)
(* Specification of one structure pass: a weak formulation, spaces and the *)
(* options are chosen, the structure of one matrix is built and the value  *)
(* pass selects the forms.                                                 *)
(***************************************************************************)
InitStruct ==
  /\ sp_seq = <<>>
  /\ spaces_size = 0
  /\ matrix_structure_reusable = FALSE
  /\ previous_mat = 0
  /\ vector_structure_reusable = FALSE
  /\ previous_rhs = 0
  /\ wf = NoWf
  /\ force_diagonal_blocks \in BOOLEAN
  /\ block_weights \in BlockWeightTables
  /\ space_seq \in {<<0>>, <<1>>, <<0, 0>>, <<0, 1>>, <<1, 0>>}
  /\ mats = [m \in Mats |-> EmptyMat]
  /\ vecs = [r \in Vecs |-> 0]
  /\ last_call = NoCall
  /\ seq_at_set = <<>>
  /\ seq_diff_seen = FALSE
  /\ done_mat = -1
  /\ assembled = NotAssembled
  /\ mg = MergeIdle
  /\ sp = DofIdle
  /\ sel = SelIdle
  /\ reg = RegIdle
  /\ rk = RkIdle

NextStruct ==
  \/ prepare_sparse_structure(1, 0)
  \/ set_spaces
  \/ \E w \in WfCatalogue(NumSpaces) : set_weak_formulation(w)
  \/ AssembleMatrixVolForms

SpecStruct == InitStruct /\ [][NextStruct]_vars

(***************************************************************************)
(* Specification of the vector part of the cache: calls with a matrix and *)
(* a vector (either may be null), calls that fail in the rebuild, and the  *)
(* operations that clear the flags.                                        *)
(***************************************************************************)
\* The weak formulation of this specification: one volume form.
WfVec ==
  [neq |-> 1, mfvol |-> << MF(0, 0, 0, 3, TRUE, <<>>) >>,
   mfsurf |-> <<>>, mfDG |-> <<>>, vfDG |-> <<>>]

InitVec ==
  /\ InitAsm
  /\ space_seq = <<0>>

NextVec ==
  \/ \E mat \in Mats \cup {0} : \E rhs \in Vecs \cup {0} : prepare_sparse_structure(mat, rhs)
  \/ \E rhs \in Vecs : prepare_sparse_structure_throws(1, rhs, 0)
  \/ set_spaces
  \/ set_weak_formulation(WfVec)
  \/ SpaceRenumbered(0)

SpecVec == InitVec /\ [][NextVec]_vars

(***************************************************************************)
(* Specification of the selectivity predicates: one form of one kind, one  *)
(* traversal state and a block-weight table (or none) are given, and       *)
(* form_to_be_assembled of that kind is called.                            *)
(***************************************************************************)
\* Scaling factors below, at and above the threshold, of both signs.
ScalingFactors == {0, 1, 2, 3, -2, -3}

AreaLists == { <<>>, <<1>>, <<2>>, <<1, 2>> }

MatrixFormInputs ==
  { MF(i, j, 0, sf, everywhere, areas) :
      i \in 0..1, j \in 0..1, sf \in ScalingFactors,
      everywhere \in BOOLEAN, areas \in AreaLists }

VectorFormInputs ==
  { VF(i, sf, everywhere, areas) :
      i \in 0..1, sf \in ScalingFactors, everywhere \in BOOLEAN, areas \in AreaLists }

\* Traversal states over two spaces: an element may be missing for one
\* component; the active edge has marker 0 (inner edge) or a boundary marker.
StateInputs ==
  { [e |-> e, marker |-> marker, edge_marker |-> edge_marker] :
      e \in { <<1, 1>>, <<1, 0>>, <<0, 1>> }, marker \in {1, 2}, edge_marker \in {0, 1, 2} }

\* Block-weight tables with weights below, at and above the threshold.
SelBlockWeightTables ==
  BlockWeightTables \cup { << <<2, 1>>, <<-2, -3>> >> }

FormKinds == {"mfvol", "mfsurf", "mfDG", "vfvol", "vfsurf", "vfDG"}

IsMatrixKind(kind) == kind \in {"mfvol", "mfsurf", "mfDG"}

\* The overload of form_to_be_assembled chosen by the static type of the form.
form_to_be_assembled(kind, form, current_state) ==
  CASE kind = "mfvol"  -> form_to_be_assembled_MatrixFormVol(form, current_state)
    [] kind = "mfsurf" -> form_to_be_assembled_MatrixFormSurf(form, current_state)
    [] kind = "mfDG"   -> form_to_be_assembled_MatrixFormDG(form, current_state)
    [] kind = "vfvol"  -> form_to_be_assembled_VectorFormVol(form, current_state)
    [] kind = "vfsurf" -> form_to_be_assembled_VectorFormSurf(form, current_state)
    [] kind = "vfDG"   -> form_to_be_assembled_VectorFormDG(form, current_state)

\* One call of form_to_be_assembled on the given form and state.
select(kind) ==
  /\ sel.pc = "input" /\ sel.kind = kind
  /\ sel' = [pc |-> "done", kind |-> kind, form |-> sel.form, state |-> sel.state,
             result |-> form_to_be_assembled(kind, sel.form, sel.state)]
  /\ UNCHANGED <<asmVars, mg, sp, reg, rk>>

InitSelect ==
  /\ sp_seq = <<>>
  /\ spaces_size = 0
  /\ matrix_structure_reusable = FALSE
  /\ previous_mat = 0
  /\ vector_structure_reusable = FALSE
  /\ previous_rhs = 0
  /\ wf = NoWf
  /\ force_diagonal_blocks = FALSE
  /\ block_weights \in SelBlockWeightTables
  /\ space_seq = <<0, 0>>
  /\ mats = [m \in Mats |-> EmptyMat]
  /\ vecs = [r \in Vecs |-> 0]
  /\ last_call = NoCall
  /\ seq_at_set = <<>>
  /\ seq_diff_seen = FALSE
  /\ done_mat = -1
  /\ assembled = NotAssembled
  /\ mg = MergeIdle
  /\ sp = DofIdle
  /\ reg = RegIdle
  /\ rk = RkIdle
  /\ \E kind \in FormKinds : \E state \in StateInputs :
       \E form \in (IF IsMatrixKind(kind) THEN MatrixFormInputs ELSE VectorFormInputs) :
         sel = [pc |-> "input", kind |-> kind, form |-> form, state |-> state]

NextSelect == \E kind \in FormKinds : select(kind)

SpecSelect == InitSelect /\ [][NextSelect]_vars

(***************************************************************************)
(* Specification of the form registry: a WeakForm of neq equations, the    *)
(* six add operations, each given a form of its kind, setSymFlag on a      *)
(* registered volume form and delete_all.  The lists of the kinds hold the *)
(* forms; forms holds, for each form, the list and the position it has     *)
(* there (the lists of the code hold pointers to the same objects).        *)
(***************************************************************************)
\* The registry accepts at most MaxForms forms in a behaviour.
MaxForms == 2

\* Component pairs (i, j) of the matrix forms given to the add operations:
\* a diagonal block, an off-diagonal block, i out of range, j out of range.
IndexPairs == { <<0, 0>>, <<0, 1>>, <<2, 0>>, <<0, 2>> }

\* WeakForm(neq): a registry of two equations with empty lists.
NewWeakForm ==
  [pc |-> "reg", neq |-> 2,
   mfvol |-> <<>>, mfsurf |-> <<>>, mfDG |-> <<>>,
   vfvol |-> <<>>, vfsurf |-> <<>>, vfDG |-> <<>>, forms |-> <<>>,
   last |-> [op |-> "none", threw |-> FALSE, error |-> "", form |-> <<>>]]

\* Forms of the kinds, by the fields the add operations read.
\* The values of SymFlag, and values outside of it.
SymFlags == {-2, -1, 0, 1, 2}

MatrixFormVolInputs ==
  { MF(p[1], p[2], sym, 3, FALSE, <<>>) : p \in IndexPairs, sym \in SymFlags }

\* Line 392: a matrix form is constructed with HERMES_NONSYM, and only a
\* volume form has setSymFlag.
MatrixFormSurfInputs ==
  { MF(p[1], p[2], 0, 3, FALSE, <<>>) : p \in IndexPairs }

MatrixFormDGInputs ==
  { MF(p[1], p[2], 0, 3, FALSE, <<>>) : p \in IndexPairs }

VectorFormRegInputs == { VF(i, 3, FALSE, <<>>) : i \in {0, 2} }

MatrixIndexInvalid_bug_i_only(form, neq) == form.i >= neq

\* Lines 644, 664, 675: the component indices of a matrix form.
MatrixIndexInvalid(form, neq) == form.i >= neq \/ form.j >= neq

\* Lines 685, 695, 706: the component index of a vector form.
VectorIndexInvalid(form, neq) == form.i >= neq

SymInvalid_bug_range_only(form) == form.sym < -1 \/ form.sym > 1

\* Lines 646-649: the symmetry flag of a matrix volume form.
SymInvalid(form) ==
  \/ form.sym < -1 \/ form.sym > 1
  \/ form.sym < 0 /\ form.i = form.j

\* The message of the exception thrown for a form with an invalid flag.
SymError(form) ==
  IF form.sym < -1 \/ form.sym > 1
  THEN "\"sym\" must be -1, 0 or 1."
  ELSE "Only off-diagonal forms can be antisymmetric."

\* An add operation that throws: nothing but the record of the call changes.
Rejected(op, form, error) ==
  reg' = [reg EXCEPT !.last = [op |-> op, threw |-> TRUE, error |-> error,
                                form |-> form]]

\* An add operation that returns: the form is appended to the list of its
\* kind and to the list of all forms.
Accepted(op, list, form) ==
  /\ Len(reg.forms) < MaxForms
  /\ reg' = [reg EXCEPT ![list] = Append(@, form),
                        !.forms = Append(@, <<list, Len(reg[list]) + 1>>),
                        !.last = [op |-> op, threw |-> FALSE, error |-> "",
                                  form |-> <<>>]]

RegUnchanged == UNCHANGED <<asmVars, mg, sp, sel, rk>>

add_matrix_form(form) ==
  /\ reg.pc = "reg"
  /\ IF MatrixIndexInvalid(form, reg.neq)
     THEN Rejected("add_matrix_form", form, "Invalid equation number.")
     ELSE IF SymInvalid(form)
          THEN Rejected("add_matrix_form", form, SymError(form))
          ELSE Accepted("add_matrix_form", "mfvol", form)
  /\ RegUnchanged

add_matrix_form_surf(form) ==
  /\ reg.pc = "reg"
  /\ IF MatrixIndexInvalid(form, reg.neq)
     THEN Rejected("add_matrix_form_surf", form, "Invalid equation number.")
     ELSE Accepted("add_matrix_form_surf", "mfsurf", form)
  /\ RegUnchanged

add_matrix_form_DG(form) ==
  /\ reg.pc = "reg"
  /\ IF MatrixIndexInvalid(form, reg.neq)
     THEN Rejected("add_matrix_form_DG", form, "Invalid equation number.")
     ELSE Accepted("add_matrix_form_DG", "mfDG", form)
  /\ RegUnchanged

add_vector_form(form) ==
  /\ reg.pc = "reg"
  /\ IF VectorIndexInvalid(form, reg.neq)
     THEN Rejected("add_vector_form", form, "Invalid equation number.")
     ELSE Accepted("add_vector_form", "vfvol", form)
  /\ RegUnchanged

add_vector_form_surf(form) ==
  /\ reg.pc = "reg"
  /\ IF VectorIndexInvalid(form, reg.neq)
     THEN Rejected("add_vector_form_surf", form, "Invalid equation number.")
     ELSE Accepted("add_vector_form_surf", "vfsurf", form)
  /\ RegUnchanged

add_vector_form_DG(form) ==
  /\ reg.pc = "reg"
  /\ IF VectorIndexInvalid(form, reg.neq)
     THEN Rejected("add_vector_form_DG", form, "Invalid equation number.")
     ELSE Accepted("add_vector_form_DG", "vfDG", form)
  /\ RegUnchanged

\* Lines 414-416: MatrixFormVol::setSymFlag on the k-th registered volume
\* form; the flag is assigned as it is given.
setSymFlag(k, sym) ==
  /\ reg.pc = "reg"
  /\ k \in 1..Len(reg.mfvol)
  /\ reg' = [reg EXCEPT !.mfvol[k].sym = sym,
                        !.last = [op |-> "setSymFlag", threw |-> FALSE,
                                  error |-> "", form |-> <<>>]]
  /\ RegUnchanged

\* Lines 210-219: WeakForm::delete_all clears the seven lists.
delete_all ==
  /\ reg.pc = "reg"
  /\ reg' = [reg EXCEPT !.mfvol = <<>>, !.mfsurf = <<>>, !.mfDG = <<>>,
                        !.vfvol = <<>>, !.vfsurf = <<>>, !.vfDG = <<>>,
                        !.forms = <<>>,
                        !.last = [op |-> "delete_all", threw |-> FALSE,
                                  error |-> "", form |-> <<>>]]
  /\ RegUnchanged

InitReg ==
  /\ sp_seq = <<>>
  /\ spaces_size = 0
  /\ matrix_structure_reusable = FALSE
  /\ previous_mat = 0
  /\ vector_structure_reusable = FALSE
  /\ previous_rhs = 0
  /\ wf = NoWf
  /\ force_diagonal_blocks = FALSE
  /\ block_weights = NoBlockWeights
  /\ space_seq = <<0>>
  /\ mats = [m \in Mats |-> EmptyMat]
  /\ vecs = [r \in Vecs |-> 0]
  /\ last_call = NoCall
  /\ seq_at_set = <<>>
  /\ seq_diff_seen = FALSE
  /\ done_mat = -1
  /\ assembled = NotAssembled
  /\ mg = MergeIdle
  /\ sp = DofIdle
  /\ sel = SelIdle
  /\ reg = NewWeakForm
  /\ rk = RkIdle

NextReg ==
  \/ \E form \in MatrixFormVolInputs : add_matrix_form(form)
  \/ \E form \in MatrixFormSurfInputs : add_matrix_form_surf(form)
  \/ \E form \in MatrixFormDGInputs : add_matrix_form_DG(form)
  \/ \E form \in VectorFormRegInputs : add_vector_form(form)
  \/ \E form \in VectorFormRegInputs : add_vector_form_surf(form)
  \/ \E form \in VectorFormRegInputs : add_vector_form_DG(form)
  \/ \E k \in 1..MaxForms : \E sym \in SymFlags : setSymFlag(k, sym)
  \/ delete_all

SpecReg == InitReg /\ [][NextReg]_vars

(***************************************************************************)
(* Specification of cloneMembers: a registry takes clones of the forms of  *)
(* another registry.  The forms are objects: heap holds the forms the      *)
(* registry has made, and its lists hold positions in heap.  A form has    *)
(* its kind, fn (the integrand, which clone() keeps), the base fields of   *)
(* Form, its ext functions and wf, the registry it refers back to.         *)
(***************************************************************************)
\* The base fields a form is given: those Form::Form sets, and others.
BaseFields == { <<1, 0, 0>>, <<3, 2, 1>> }

OtherForm(kind, base) ==
  [kind |-> kind, fn |-> "fn_" \o kind, i |-> 0, j |-> 1,
   scaling_factor |-> base[1],
   stage_time |-> base[2], u_ext_offset |-> base[3],
   previous_iteration_space_index |-> base[3],
   ext |-> << "ext_" \o kind >>, u_ext_fn |-> << "u_ext_" \o kind >>,
   wf |-> "other"]

OtherForms == { OtherForm(kind, base) : kind \in FormKinds, base \in BaseFields }

\* Lines 394, 486, 522: the constructors of the matrix forms set
\* previous_iteration_space_index to j, those of the vector volume and
\* surface forms to i; VectorFormDG (lines 599-603) leaves it as it is.
ConstructedSpaceIndex(form, uninit) ==
  IF form.kind \in {"mfvol", "mfsurf", "mfDG"} THEN form.j
  ELSE IF form.kind \in {"vfvol", "vfsurf"} THEN form.i
  ELSE uninit[2]

\* The clone() a form class defines: it either copies the form, or makes one
\* with the constructor, whose base fields are those of Form::Form (line 302:
\* scaling factor 1, no wf, stage time 0; u_ext_offset is not initialised)
\* and of the constructor of its kind.  uninit holds the two values the new
\* object reads where nothing was assigned.  For a form of a vector kind j is
\* not a member.
clone(form, how, uninit) ==
  IF how = "copy"
  THEN form
  ELSE [form EXCEPT !.scaling_factor = 1, !.stage_time = 0,
                    !.u_ext_offset = uninit[1],
                    !.previous_iteration_space_index =
                        ConstructedSpaceIndex(form, uninit),
                    !.ext = <<>>, !.u_ext_fn = <<>>, !.wf = "nullptr"]

\* Lines 381-388.
copy_base(form, other_form) ==
  [form EXCEPT !.stage_time = other_form.stage_time,
               !.scaling_factor = other_form.scaling_factor,
               !.u_ext_offset = other_form.u_ext_offset,
               !.previous_iteration_space_index =
                   other_form.previous_iteration_space_index]

\* Lines 108-115: the lists are cleared.
ClearedMembers(w) ==
  [w EXCEPT !.mfvol = <<>>, !.mfsurf = <<>>, !.mfDG = <<>>,
            !.vfvol = <<>>, !.vfsurf = <<>>, !.vfDG = <<>>,
            !.forms = <<>>, !.ext = <<>>]

\* Lines 119-166: one pass of the first loop.  For the five first kinds the
\* clone with the copied base fields goes to forms and to the list of its
\* kind; for a VectorFormDG (lines 159-166) it goes to forms, a second clone
\* is made and pushed to forms as well, and vfDG takes the second one.
\* Every clone is an object of its own: uninit lists, in the order of the
\* allocations, what each new object reads in its unassigned fields.
CloneOneForm(w, other_form, how, uninit) ==
  LET form == copy_base(clone(other_form, how, uninit[1]), other_form)
      heap1 == Append(w.heap, form)
      second == clone(other_form, how, uninit[2])
      heap2 == Append(heap1, second)
  IN  IF other_form.kind # "vfDG"
      THEN [w EXCEPT !.heap = heap1,
                     !.forms = Append(@, Len(heap1)),
                     ![other_form.kind] = Append(@, Len(heap1))]
      ELSE [w EXCEPT !.heap = heap2,
                     !.forms = @ \o << Len(heap1), Len(heap2) >>,
                     !.vfDG = Append(@, Len(heap2))]

\* The clones one pass of the first loop makes.
ClonesMade(other_form) == IF other_form.kind = "vfDG" THEN 2 ELSE 1

\* The clones cloneMembers makes of the forms of a registry.
Allocations(other_forms) ==
  Len(other_forms)
    + Cardinality({ k \in 1..Len(other_forms) : other_forms[k].kind = "vfDG" })

\* What a new object can read in u_ext_offset and, if its constructor does
\* not assign it, in previous_iteration_space_index.
Garbage == {0, 1} \X {0, 1}

RECURSIVE CloneForms(_, _, _, _, _)
\* Lines 117-167: the first loop, from the k-th form of the other registry.
CloneForms(w, other_forms, k, how, uninit) ==
  IF k > Len(other_forms)
  THEN w
  ELSE CloneForms(CloneOneForm(w, other_forms[k], how, uninit),
                  other_forms, k + 1, how,
                  SubSeq(uninit, ClonesMade(other_forms[k]) + 1, Len(uninit)))

\* Lines 183-205: the clones of ext functions (a function is its name).
cloneMemberExtFunctions(source_ext) == source_ext

\* Lines 168-173: the second loop runs over the positions of the OTHER
\* registry's list: the form at that position of this registry takes the
\* clones of the ext functions and the back-reference.
WithBackReferences(w, other_forms) ==
  [w EXCEPT !.heap =
     [id \in 1..Len(w.heap) |->
        IF \E i \in 1..Len(other_forms) : w.forms[i] = id
        THEN LET i == CHOOSE i \in 1..Len(other_forms) : w.forms[i] = id
             IN  [w.heap[id] EXCEPT
                    !.ext = cloneMemberExtFunctions(other_forms[i].ext),
                    !.wf = "this"]
        ELSE w.heap[id]]]

\* Line 171: the other registry's form takes the u_ext_fn of the clone.
OtherAfterClone(w, other_forms) ==
  [i \in 1..Len(other_forms) |->
     [other_forms[i] EXCEPT !.u_ext_fn = w.heap[w.forms[i]].u_ext_fn]]

cloneMembers ==
  /\ reg.pc = "clone"
  /\ LET other_forms == reg.other_wf.forms
         cloned == CloneForms(ClearedMembers(reg.this), other_forms, 1,
                              reg.how, reg.uninit)
         this == WithBackReferences(cloned, other_forms)
     IN  reg' = [pc |-> "cloned",
                 this |-> [this EXCEPT
                             !.ext = cloneMemberExtFunctions(reg.other_wf.ext),
                             !.u_ext_fn = reg.other_wf.u_ext_fn],
                 before |-> reg.other_wf,
                 other_wf |-> [reg.other_wf EXCEPT
                                 !.forms = OtherAfterClone(cloned, other_forms)],
                 how |-> reg.how, uninit |-> reg.uninit]
  /\ RegUnchanged

\* The registry that clones: empty, or holding a form of its own.
CloningRegistries ==
  LET empty == [heap |-> <<>>, forms |-> <<>>, mfvol |-> <<>>, mfsurf |-> <<>>,
                mfDG |-> <<>>, vfvol |-> <<>>, vfsurf |-> <<>>, vfDG |-> <<>>,
                ext |-> <<>>, u_ext_fn |-> <<>>]
  IN  { empty,
        [empty EXCEPT !.heap = << [OtherForm("mfvol", <<1, 0, 0>>) EXCEPT !.wf = "this"] >>,
                      !.forms = <<1>>, !.mfvol = <<1>>, !.ext = << "own_ext" >>] }

InitClone ==
  /\ sp_seq = <<>>
  /\ spaces_size = 0
  /\ matrix_structure_reusable = FALSE
  /\ previous_mat = 0
  /\ vector_structure_reusable = FALSE
  /\ previous_rhs = 0
  /\ wf = NoWf
  /\ force_diagonal_blocks = FALSE
  /\ block_weights = NoBlockWeights
  /\ space_seq = <<0>>
  /\ mats = [m \in Mats |-> EmptyMat]
  /\ vecs = [r \in Vecs |-> 0]
  /\ last_call = NoCall
  /\ seq_at_set = <<>>
  /\ seq_diff_seen = FALSE
  /\ done_mat = -1
  /\ assembled = NotAssembled
  /\ mg = MergeIdle
  /\ sp = DofIdle
  /\ sel = SelIdle
  /\ rk = RkIdle
  /\ \E n \in 0..MaxForms : \E other_forms \in [1..n -> OtherForms] :
       \E this \in CloningRegistries : \E how \in {"copy", "construct"} :
         \E uninit \in [1..Allocations(other_forms) ->
                          IF how = "copy" THEN {<<0, 0>>} ELSE Garbage] :
           reg = [pc |-> "clone", this |-> this, how |-> how, uninit |-> uninit,
                  other_wf |-> [forms |-> other_forms, ext |-> << "wf_ext" >>,
                                u_ext_fn |-> << "wf_u_ext" >>]]

NextClone == cloneMembers

SpecClone == InitClone /\ [][NextClone]_vars

(***************************************************************************)
(* Specification of the resolution of the area markers: a registry with    *)
(* one matrix volume form and one matrix surface form on one space, whose  *)
(* area names the author sets, and WeakForm::processFormMarkers.           *)
(***************************************************************************)
\* The wildcard area name.
HERMES_ANY == "HERMES_ANY"

\* The marker-conversion tables of the mesh of the space: the names of the
\* element markers and of the boundary markers with their internal markers.
ElementMarkersConversion == { <<"a", 1>>, <<"b", 2>> }

BoundaryMarkersConversion == { <<"a", 2>>, <<"c", 3>> }

\* MarkersConversion::get_internal_marker: the marker of the name and whether
\* the table has the name.
get_internal_marker(conversion, name) ==
  IF \E p \in conversion : p[1] = name
  THEN [valid |-> TRUE, marker |-> (CHOOSE p \in conversion : p[1] = name)[2]]
  ELSE [valid |-> FALSE, marker |-> -1]

\* The area lists an author gives to a form.
AreaNameLists ==
  { <<HERMES_ANY>>, <<"a">>, <<"b", "a">>, <<"a", "c">>, <<HERMES_ANY, "x">>,
    <<"x", HERMES_ANY>> }

\* Form::Form(i): the area list holds the wildcard, nothing is resolved.
NewForm(i) ==
  [i |-> i, areas |-> <<HERMES_ANY>>, areas_internal |-> <<>>,
   assembleEverywhere |-> FALSE]

areas_internal_clear_bug_kept(form) == form

\* Line 254: form->areas_internal.clear() before the names are resolved.
areas_internal_clear(form) == [form EXCEPT !.areas_internal = <<>>]

\* Lines 255-274: the loop over the area names of one form from name
\* marker_i on; the result is the form and whether the exception was thrown.
RECURSIVE ResolveAreas(_, _, _)
ResolveAreas(form, surface, marker_i) ==
  IF marker_i > Len(form.areas)
  THEN [form |-> form, threw |-> FALSE]
  ELSE IF form.areas[marker_i] = HERMES_ANY
       THEN [form |-> [form EXCEPT !.assembleEverywhere = TRUE, !.areas_internal = <<>>],
             threw |-> FALSE]
       ELSE LET marker == get_internal_marker(
                            IF surface THEN BoundaryMarkersConversion
                                       ELSE ElementMarkersConversion,
                            form.areas[marker_i])
            IN  IF marker.valid
                THEN ResolveAreas([form EXCEPT !.areas_internal = Append(@, marker.marker)],
                                  surface, marker_i + 1)
                ELSE [form |-> form, threw |-> TRUE]

\* processFormMarkers(spaces, surface, forms_to_process) from form form_i on:
\* the forms of the list after the call and whether the exception was thrown.
RECURSIVE processFormMarkersOf(_, _, _)
processFormMarkersOf(forms_to_process, surface, form_i) ==
  IF form_i > Len(forms_to_process)
  THEN [forms |-> forms_to_process, threw |-> FALSE]
  ELSE LET r == ResolveAreas(areas_internal_clear(forms_to_process[form_i]), surface, 1)
           done == [forms_to_process EXCEPT ![form_i] = r.form]
       IN  IF r.threw
           THEN [forms |-> done, threw |-> TRUE]
           ELSE processFormMarkersOf(done, surface, form_i + 1)

\* The lists processed by processFormMarkers(spaces), in the order of the
\* calls, with the surface argument of each.
ProcessedLists == << <<"mfvol", FALSE>>, <<"vfvol", FALSE>>, <<"mfsurf", TRUE>>, <<"vfsurf", TRUE>> >>

\* The registry after the calls from call k on; a call that throws ends them.
RECURSIVE processFormMarkersFrom(_, _)
processFormMarkersFrom(w, k) ==
  IF k > Len(ProcessedLists)
  THEN [w EXCEPT !.last.op = "processFormMarkers", !.last.threw = FALSE]
  ELSE LET list == ProcessedLists[k][1]
           r == processFormMarkersOf(w[list], ProcessedLists[k][2], 1)
       IN  IF r.threw
           THEN [w EXCEPT ![list] = r.forms,
                          !.last.op = "processFormMarkers", !.last.threw = TRUE]
           ELSE processFormMarkersFrom([w EXCEPT ![list] = r.forms], k + 1)

processFormMarkers ==
  /\ reg.pc = "markers"
  /\ reg' = processFormMarkersFrom(
               [reg EXCEPT !.last.stale =
                  \E k \in 1..Len(ProcessedLists) :
                    \E n \in 1..Len(reg[ProcessedLists[k][1]]) :
                      reg[ProcessedLists[k][1]][n].areas_internal # <<>>], 1)
  /\ RegUnchanged

\* Form::set_areas on the form at position k of a list.
set_areas(list, k, areas) ==
  /\ reg.pc = "markers"
  /\ k \in 1..Len(reg[list])
  /\ reg' = [reg EXCEPT ![list][k].areas = areas,
                        !.last = [op |-> "set_areas", threw |-> FALSE, stale |-> FALSE]]
  /\ RegUnchanged

InitMarkers ==
  /\ sp_seq = <<>>
  /\ spaces_size = 0
  /\ matrix_structure_reusable = FALSE
  /\ previous_mat = 0
  /\ vector_structure_reusable = FALSE
  /\ previous_rhs = 0
  /\ wf = NoWf
  /\ force_diagonal_blocks = FALSE
  /\ block_weights = NoBlockWeights
  /\ space_seq = <<0>>
  /\ mats = [m \in Mats |-> EmptyMat]
  /\ vecs = [r \in Vecs |-> 0]
  /\ last_call = NoCall
  /\ seq_at_set = <<>>
  /\ seq_diff_seen = FALSE
  /\ done_mat = -1
  /\ assembled = NotAssembled
  /\ mg = MergeIdle
  /\ sp = DofIdle
  /\ sel = SelIdle
  /\ reg = [pc |-> "markers",
            mfvol |-> << NewForm(0) >>, vfvol |-> <<>>,
            mfsurf |-> << NewForm(0) >>, vfsurf |-> <<>>,
            last |-> [op |-> "none", threw |-> FALSE, stale |-> FALSE]]
  /\ rk = RkIdle

NextMarkers ==
  \/ processFormMarkers
  \/ \E list \in {"mfvol", "mfsurf"} : \E areas \in AreaNameLists : set_areas(list, 1, areas)

SpecMarkers == InitMarkers /\ [][NextMarkers]_vars

(***************************************************************************)
(* Specification of get_blocks: a registry of two equations with at most   *)
(* one matrix form of each kind, as the add operations accept them, and    *)
(* one call of get_blocks.                                                 *)
(***************************************************************************)
\* The lists of at most one form with the given symmetry flags and scaling
\* factors, on any block.
FormLists(syms, factors) ==
  { <<>> } \cup
  { << MF(i, j, sym, sf, TRUE, <<>>) >> :
      i \in 0..1, j \in 0..1, sym \in syms, sf \in factors }

\* One call of get_blocks on the registry.
call_get_blocks ==
  /\ reg.pc = "blocks"
  /\ reg' = [reg EXCEPT !.pc = "blocks_done",
                        !.blocks = get_blocks(reg.w, reg.force_diagonal)]
  /\ RegUnchanged

InitBlocks ==
  /\ sp_seq = <<>>
  /\ spaces_size = 0
  /\ matrix_structure_reusable = FALSE
  /\ previous_mat = 0
  /\ vector_structure_reusable = FALSE
  /\ previous_rhs = 0
  /\ wf = NoWf
  /\ force_diagonal_blocks = FALSE
  /\ block_weights = NoBlockWeights
  /\ space_seq = <<0>>
  /\ mats = [m \in Mats |-> EmptyMat]
  /\ vecs = [r \in Vecs |-> 0]
  /\ last_call = NoCall
  /\ seq_at_set = <<>>
  /\ seq_diff_seen = FALSE
  /\ done_mat = -1
  /\ assembled = NotAssembled
  /\ mg = MergeIdle
  /\ sp = DofIdle
  /\ sel = SelIdle
  /\ rk = RkIdle
  /\ \E mfvol \in FormLists({-1, 0, 1}, {1, 2, 3}) :
       \E mfsurf \in FormLists({0, 1}, {2, -3}) :
         \E mfDG \in FormLists({0}, {3}) :
           \E force_diagonal \in BOOLEAN :
             /\ \A x \in 1..Len(mfvol) : ~SymInvalid(mfvol[x])
             /\ reg = [pc |-> "blocks",
                       w |-> [neq |-> 2, mfvol |-> mfvol, mfsurf |-> mfsurf,
                              mfDG |-> mfDG],
                       force_diagonal |-> force_diagonal,
                       blocks |-> <<>>]

NextBlocks == call_get_blocks

SpecBlocks == InitBlocks /\ [][NextBlocks]_vars

(***************************************************************************)
(* RungeKutta::create_stage_wf: the multistage weak formulations built    *)
(* from a base weak form of one equation and a Butcher tableau.            *)
(* A form is a record of the fields the function reads or writes; fn names *)
(* the integrand, which clone() copies.  Reals are modelled by integers.   *)
(***************************************************************************)
\* The largest number of stages of a tableau.
MaxStages == 2

\* A Butcher tableau of s stages: A, the rows B and B2, the nodes C.
ButcherTable(size, A, B2) ==
  [size |-> size, A |-> A, B |-> [j \in 1..size |-> 1], B2 |-> B2,
   C |-> [i \in 1..size |-> i - 1]]

\* ButcherTable::is_embedded: the B2 row is not all zero.
is_embedded(bt) == \E j \in 1..bt.size : bt.B2[j] # 0

\* A form of the base weak formulation: block (0, 0), its own scaling factor.
BaseForm(fn, sym, sf) ==
  [i |-> 0, j |-> 0, sym |-> sym, scaling_factor |-> sf, u_ext_offset |-> 0,
   ext |-> << "ext_of_" \o fn >>, fn |-> fn, area |-> "a"]

\* Lines 276-283: the mass-matrix form.
proj_form ==
  [i |-> 0, j |-> 0, sym |-> 1, scaling_factor |-> 1, u_ext_offset |-> 0,
   ext |-> <<>>, fn |-> "MatrixFormVolL2", area |-> HERMES_ANY]

\* Lines 311-314: the constant functions of the stage times.
stage_time_sol(current_time, time_step, bt) ==
  [i \in 1..bt.size |->
     [stage |-> i - 1, value |-> current_time + bt.C[i] * time_step]]

StageScaling_bug_transposed(time_step, bt, i, j) == (0 - time_step) * bt.A[j + 1][i + 1]

\* Lines 336, 363: -time_step * bt->get_A(i, j).
StageScaling(time_step, bt, i, j) == (0 - time_step) * bt.A[i + 1][j + 1]

\* Lines 332-341 and 359-368: the clone of a matrix form for block (i, j).
MatrixClone(form, i, j, time_step, bt, sts) ==
  [form EXCEPT !.i = i, !.j = j,
               !.scaling_factor = StageScaling(time_step, bt, i, j),
               !.u_ext_offset = i,
               !.ext = Append(@, sts[i + 1])]

\* Lines 385-392 and 408-418: the clone of a vector form for stage i.
VectorClone(form, i, sts) ==
  [form EXCEPT !.i = i, !.scaling_factor = -1, !.u_ext_offset = i,
               !.ext = Append(@, sts[i + 1])]

\* The loops over m, i, j (lines 329-351, 356-378): the clones in the order
\* in which they are added.
MatrixClones(base, time_step, bt, sts) ==
  [k \in 1..(Len(base) * bt.size * bt.size) |->
     MatrixClone(base[((k - 1) \div (bt.size * bt.size)) + 1],
                 ((k - 1) % (bt.size * bt.size)) \div bt.size,
                 (k - 1) % bt.size, time_step, bt, sts)]

\* The loops over m, i (lines 383-402, 407-430).
VectorClones(base, bt, sts) ==
  [k \in 1..(Len(base) * bt.size) |->
     VectorClone(base[((k - 1) \div bt.size) + 1], (k - 1) % bt.size, sts)]

\* create_stage_wf on empty stage weak forms of 1 and of num_stages equations:
\* the two weak forms and the stage-time functions the object then holds.
create_stage_wf(current_time, time_step, bt, base_wf) ==
  LET sts == stage_time_sol(current_time, time_step, bt)
  IN  [left |-> [neq |-> 1, mfvol |-> << proj_form >>, mfsurf |-> <<>>,
                 vfvol |-> <<>>, vfsurf |-> <<>>],
       right |-> [neq |-> bt.size,
                  mfvol |-> MatrixClones(base_wf.mfvol, time_step, bt, sts),
                  mfsurf |-> MatrixClones(base_wf.mfsurf, time_step, bt, sts),
                  vfvol |-> VectorClones(base_wf.vfvol, bt, sts),
                  vfsurf |-> VectorClones(base_wf.vfsurf, bt, sts)],
       stage_time_sol |-> sts]

\* The tableaux of a given size with entries 0 and 1 in A, with and without
\* an embedded row.
ButcherTables(size) ==
  { ButcherTable(size, A, B2) :
      A \in [1..size -> [1..size -> {0, 1}]],
      B2 \in { [j \in 1..size |-> 0], [j \in 1..size |-> 1] } }

\* Base weak forms of one equation: up to two matrix volume forms and at most
\* one form of each other kind.
BaseWeakForms ==
  { [neq |-> 1, mfvol |-> mfvol, mfsurf |-> mfsurf, vfvol |-> vfvol, vfsurf |-> vfsurf] :
      mfvol \in { <<>>, << BaseForm("jac", 1, 3) >>,
                  << BaseForm("jac", 0, 3), BaseForm("jac2", 0, 5) >> },
      mfsurf \in { <<>>, << BaseForm("jac_surf", 0, 3) >> },
      vfvol \in { <<>>, << BaseForm("res", 0, 3) >> },
      vfsurf \in { <<>>, << BaseForm("res_surf", 0, 3) >> } }

\* One call of create_stage_wf.
call_create_stage_wf ==
  /\ rk.pc = "stage_input"
  /\ rk' = [rk EXCEPT !.pc = "stage_done",
                      !.stage_wf = create_stage_wf(rk.current_time, rk.time_step,
                                                   rk.bt, rk.base_wf)]
  /\ UNCHANGED <<asmVars, mg, sp, sel, reg>>

InitStage ==
  /\ sp_seq = <<>>
  /\ spaces_size = 0
  /\ matrix_structure_reusable = FALSE
  /\ previous_mat = 0
  /\ vector_structure_reusable = FALSE
  /\ previous_rhs = 0
  /\ wf = NoWf
  /\ force_diagonal_blocks = FALSE
  /\ block_weights = NoBlockWeights
  /\ space_seq = <<0>>
  /\ mats = [m \in Mats |-> EmptyMat]
  /\ vecs = [r \in Vecs |-> 0]
  /\ last_call = NoCall
  /\ seq_at_set = <<>>
  /\ seq_diff_seen = FALSE
  /\ done_mat = -1
  /\ assembled = NotAssembled
  /\ mg = MergeIdle
  /\ sp = DofIdle
  /\ sel = SelIdle
  /\ reg = RegIdle
  /\ \E size \in 1..MaxStages : \E bt \in ButcherTables(size) :
       \E base_wf \in BaseWeakForms : \E time_step \in {1, 2} :
         rk = [pc |-> "stage_input", current_time |-> 10, time_step |-> time_step,
               bt |-> bt, base_wf |-> base_wf, stage_wf |-> <<>>]

NextStage == call_create_stage_wf

SpecStage == InitStage /\ [][NextStage]_vars

(***************************************************************************)
(* The pass over the neighbours (lines 82-175) on one traversal state,     *)
(* also on a state in which a space has no element.                        *)
(***************************************************************************)
\* The traversal states of ns spaces: every space has one of the elements or
\* none (0), and some space has one.
DGStateInputs(ns) ==
  { [e |-> e, marker |-> 1, edge_marker |-> 0] :
      e \in { f \in [1..ns -> {0} \cup Elems] : \E k \in 1..ns : f[k] # 0 } }

\* Weak formulations with interface matrix forms.
DGWeakForms(neq) ==
  IF neq = 1
  THEN { [neq |-> 1, mfvol |-> << MF(0, 0, 0, 0, TRUE, <<>>) >>,
          mfsurf |-> <<>>, mfDG |-> << MF(0, 0, 0, 3, TRUE, <<>>) >>,
          vfDG |-> <<>>] }
  ELSE { [neq |-> 2, mfvol |-> << MF(1, 1, 0, 0, TRUE, <<>>) >>,
          mfsurf |-> <<>>, mfDG |-> << MF(0, 1, 0, 3, TRUE, <<>>) >>,
          vfDG |-> <<>>],
         [neq |-> 2, mfvol |-> << MF(0, 0, 0, 3, TRUE, <<>>) >>,
          mfsurf |-> <<>>, mfDG |-> << MF(1, 1, 0, 3, TRUE, <<>>) >>,
          vfDG |-> <<>>],
         [neq |-> 2, mfvol |-> << MF(1, 0, 1, 3, TRUE, <<>>) >>,
          mfsurf |-> <<>>,
          mfDG |-> << MF(0, 0, 0, 3, TRUE, <<>>), MF(1, 0, 0, 3, TRUE, <<>>) >>,
          vfDG |-> <<>>] }

\* Lines 85, 100 and 104 dereference the element of every space.
DereferencesNull(current_state) ==
  \E el \in 0..(spaces_size - 1) : current_state.e[el + 1] = 0

\* One pass of the loop body, lines 82-175.  With a null element the pass
\* either ends the process (crashed) or goes on with what it read.
register_neighbours(crashed, read) ==
  /\ sel.pc = "dg_input"
  /\ LET current_state == sel.state
         blocks == get_blocks(wf, force_diagonal_blocks)
     IN  sel' = IF DereferencesNull(current_state)
                THEN IF crashed
                     THEN [pc |-> "dg_done", state |-> current_state,
                           crashed |-> TRUE, positions |-> {}]
                     ELSE [pc |-> "dg_done", state |-> current_state,
                           crashed |-> FALSE,
                           positions |-> RegisterDGOver(current_state, blocks, read)]
                ELSE [pc |-> "dg_done", state |-> current_state,
                      crashed |-> FALSE,
                      positions |-> RegisterDG(current_state, blocks)]
  /\ UNCHANGED <<asmVars, mg, sp, reg, rk>>

\* The assembler after set_weak_formulation and set_spaces, at one traversal
\* state of a structure rebuild.
InitDG ==
  /\ space_seq \in {<<0>>, <<1>>, <<0, 0>>, <<0, 1>>, <<1, 0>>}
  /\ sp_seq = space_seq
  /\ spaces_size = Len(space_seq)
  /\ matrix_structure_reusable = FALSE
  /\ previous_mat = 0
  /\ vector_structure_reusable = FALSE
  /\ previous_rhs = 0
  /\ wf \in DGWeakForms(Len(space_seq))
  /\ force_diagonal_blocks \in BOOLEAN
  /\ block_weights = NoBlockWeights
  /\ mats = [m \in Mats |-> EmptyMat]
  /\ vecs = [r \in Vecs |-> 0]
  /\ last_call = NoCall
  /\ seq_at_set = space_seq
  /\ seq_diff_seen = FALSE
  /\ done_mat = -1
  /\ assembled = NotAssembled
  /\ mg = MergeIdle
  /\ sp = DofIdle
  /\ reg = RegIdle
  /\ rk = RkIdle
  /\ \E state \in DGStateInputs(Len(space_seq)) :
       sel = [pc |-> "dg_input", state |-> state]

NextDG == \E crashed \in BOOLEAN : \E read \in SUBSET Elems :
            register_neighbours(crashed, read)

SpecDG == InitDG /\ [][NextDG]_vars

(***************************************************************************)
(* RungeKutta::rk_time_step: the checks, the set-up and the Newton loop.   *)
(* One step of the model is the part of the call up to the loop, or one    *)
(* pass of the loop (with what follows the loop when the pass leaves it).  *)
(* The residual norm of a pass is an input; norms are integers.            *)
(***************************************************************************)
\* The largest newton_max_iter a caller passes.
MaxNewtonIter == 3

\* The residual norms an assembly can give.
ResidualNorms == 0..3

\* The base weak form of the discrete problem given to rk_time_step.
RkBaseWf ==
  [neq |-> 1, mfvol |-> << BaseForm("jac", 0, 3) >>, mfsurf |-> <<>>,
   vfvol |-> << BaseForm("res", 0, 3) >>, vfsurf |-> <<>>]

\* A call of rk_time_step with its arguments, nothing done yet.
RkCall(matrix_solver, neq, error_fn, bt, is_linear, newton_tol, newton_max_iter) ==
  [pc |-> "call",
   matrix_solver |-> matrix_solver, neq |-> neq, error_fn |-> error_fn, bt |-> bt,
   is_linear |-> is_linear, newton_tol |-> newton_tol,
   newton_max_iter |-> newton_max_iter, newton_max_allowed_residual_norm |-> 2,
   current_time |-> 10, time_step |-> 1, base_wf |-> RkBaseWf,
   matrices |-> 0, stage_wf |-> <<>>, assemblies_left |-> 0,
   it |-> 0, residuals |-> <<>>, solves |-> 0,
   sln_time_new |-> FALSE, error_fn_written |-> FALSE,
   result |-> "none", error |-> ""]

\* error(...): the call ends with a fatal error.
RkError(r, message) == [r EXCEPT !.pc = "returned", !.result = "error", !.error = message]

EmbeddedMissing_bug_unchecked(error_fn, bt) == FALSE

\* Line 54: an error estimate is requested and the tableau is not embedded.
EmbeddedMissing(error_fn, bt) == error_fn /\ ~is_embedded(bt)

\* Lines 44-120: the checks, the matrices and the solver, the stage weak
\* forms, the assembly of the mass matrix; it = 1 at the loop.
rk_time_step_begin ==
  /\ rk.pc = "call"
  /\ rk' = IF rk.matrix_solver # "SOLVER_UMFPACK"
           THEN RkError(rk, "Sorry, rk_time_step() still only works with UMFpack.")
           ELSE IF rk.neq > 1
           THEN RkError(rk, "Sorry, rk_time_step() does not work with systems yet.")
           ELSE IF EmbeddedMissing(rk.error_fn, rk.bt)
           THEN RkError(rk, "rk_time_step(): R-K method must be embedded if temporal error estimate is requested.")
           ELSE [rk EXCEPT !.pc = "loop",
                           !.matrices = 2,
                           !.stage_wf = create_stage_wf(rk.current_time, rk.time_step,
                                                        rk.bt, rk.base_wf),
                           !.assemblies_left = 1,
                           !.it = 1]
  /\ UNCHANGED <<asmVars, mg, sp, sel, reg>>

LeavesLoop_bug_no_budget(r, residual_norm) ==
  residual_norm < r.newton_tol /\ r.it > 1

\* Line 180: the residual is within the tolerance or the budget is spent, and
\* this is not the first pass.
LeavesLoop(r, residual_norm) ==
  (residual_norm < r.newton_tol \/ r.it > r.newton_max_iter) /\ r.it > 1

AfterLoop_bug_always_true(r) ==
  [r EXCEPT !.pc = "returned", !.result = "true",
            !.sln_time_new = TRUE,
            !.error_fn_written = r.error_fn]

\* Lines 202-256: after the loop.
AfterLoop(r) ==
  IF r.it >= r.newton_max_iter
  THEN [r EXCEPT !.pc = "returned", !.result = "false"]
  ELSE [r EXCEPT !.pc = "returned", !.result = "true",
                 !.sln_time_new = TRUE,
                 !.error_fn_written = r.error_fn]

\* Lines 121-200: one pass of the Newton loop, with the residual norm its
\* assembly gives and whether the linear solver succeeds.
newton_pass(residual_norm, solved) ==
  /\ rk.pc = "loop"
  /\ rk.it <= MaxNewtonIter + 2
  /\ LET r == [rk EXCEPT !.residuals = Append(@, residual_norm)]
     IN  rk' = IF residual_norm > r.newton_max_allowed_residual_norm
               THEN [r EXCEPT !.pc = "returned", !.result = "false"]
               ELSE IF LeavesLoop(r, residual_norm)
               THEN AfterLoop(r)
               ELSE IF ~solved
               THEN RkError(r, "Matrix solver failed.")
               ELSE IF r.is_linear
               THEN AfterLoop([r EXCEPT !.solves = @ + 1])
               ELSE [r EXCEPT !.solves = @ + 1, !.it = @ + 1]
  /\ UNCHANGED <<asmVars, mg, sp, sel, reg>>

InitRK ==
  /\ sp_seq = <<>>
  /\ spaces_size = 0
  /\ matrix_structure_reusable = FALSE
  /\ previous_mat = 0
  /\ vector_structure_reusable = FALSE
  /\ previous_rhs = 0
  /\ wf = NoWf
  /\ force_diagonal_blocks = FALSE
  /\ block_weights = NoBlockWeights
  /\ space_seq = <<0>>
  /\ mats = [m \in Mats |-> EmptyMat]
  /\ vecs = [r \in Vecs |-> 0]
  /\ last_call = NoCall
  /\ seq_at_set = <<>>
  /\ seq_diff_seen = FALSE
  /\ done_mat = -1
  /\ assembled = NotAssembled
  /\ mg = MergeIdle
  /\ sp = DofIdle
  /\ sel = SelIdle
  /\ reg = RegIdle
  /\ \E matrix_solver \in {"SOLVER_UMFPACK", "SOLVER_PETSC"} : \E neq \in {1, 2} :
       \E error_fn \in BOOLEAN : \E bt \in ButcherTables(1) :
         \E is_linear \in BOOLEAN : \E newton_tol \in {1, 3} :
           \E newton_max_iter \in 0..MaxNewtonIter :
             rk = RkCall(matrix_solver, neq, error_fn, bt, is_linear, newton_tol,
                         newton_max_iter)

NextRK ==
  \/ rk_time_step_begin
  \/ \E residual_norm \in ResidualNorms : \E solved \in BOOLEAN :
       newton_pass(residual_norm, solved)

SpecRK == InitRK /\ [][NextRK]_vars

\* The call goes on as long as it has not returned.
SpecRKLive == SpecRK /\ WF_vars(NextRK)

(***************************************************************************)
(* tests/tutorial/19-newton-timedep-flame: the time stepping loop and its  *)
(* Newton loop.  Times are counted in units of 0.5 s, residual norms in    *)
(* units of 1e-4.                                                          *)
(***************************************************************************)
TAU == 1

T_FINAL == 120

NEWTON_TOL == 1

NEWTON_MAX_ITER == 50

\* The residual l2 norms an assembly can give: below, at and above NEWTON_TOL.
FlameResidualNorms == 0..2

\* Lines 156-176: the end of a time step; the Newton loop of the next one
\* starts with it = 1 unless the final time is passed.
NextTimeStep(r) ==
  IF r.current_time + TAU <= T_FINAL
  THEN [r EXCEPT !.current_time = @ + TAU, !.ts = @ + 1, !.it = 1, !.solves = 0]
  ELSE [r EXCEPT !.current_time = @ + TAU, !.ts = @ + 1, !.pc = "finished"]

NewtonGaveUp_bug_unchecked(it) == FALSE

\* Line 144.
NewtonGaveUp(it) == it >= NEWTON_MAX_ITER

\* Lines 119-154: one pass of the Newton loop of the test (and the rest of
\* the time step when the pass leaves the loop).
flame_newton_pass(res_l2_norm, solved) ==
  /\ rk.pc = "flame"
  /\ LET r == [rk EXCEPT !.assembled_into = <<rk.matrix, rk.rhs>>, !.left_with = -1]
     IN  rk' = IF res_l2_norm < NEWTON_TOL \/ r.it > NEWTON_MAX_ITER
               THEN NextTimeStep([r EXCEPT !.left_with = res_l2_norm])
               ELSE IF ~solved
               THEN [r EXCEPT !.pc = "aborted", !.error = "Matrix solver failed."]
               ELSE IF NewtonGaveUp(r.it)
               THEN [r EXCEPT !.pc = "aborted", !.solves = @ + 1,
                              !.error = "Newton method did not converge."]
               ELSE [r EXCEPT !.solves = @ + 1, !.it = @ + 1]
  /\ UNCHANGED <<asmVars, mg, sp, sel, reg>>

InitFlame ==
  /\ sp_seq = <<>>
  /\ spaces_size = 0
  /\ matrix_structure_reusable = FALSE
  /\ previous_mat = 0
  /\ vector_structure_reusable = FALSE
  /\ previous_rhs = 0
  /\ wf = NoWf
  /\ force_diagonal_blocks = FALSE
  /\ block_weights = NoBlockWeights
  /\ space_seq = <<0>>
  /\ mats = [m \in Mats |-> EmptyMat]
  /\ vecs = [r \in Vecs |-> 0]
  /\ last_call = NoCall
  /\ seq_at_set = <<>>
  /\ seq_diff_seen = FALSE
  /\ done_mat = -1
  /\ assembled = NotAssembled
  /\ mg = MergeIdle
  /\ sp = DofIdle
  /\ sel = SelIdle
  /\ reg = RegIdle
  /\ rk = [pc |-> "flame", current_time |-> 0, ts |-> 1, it |-> 1, solves |-> 0,
           matrix |-> 1, rhs |-> 1, assembled_into |-> <<>>, left_with |-> -1,
           error |-> ""]

NextFlame ==
  \E res_l2_norm \in FlameResidualNorms : \E solved \in BOOLEAN :
    flame_newton_pass(res_l2_norm, solved)

SpecFlame == InitFlame /\ [][NextFlame]_vars

(***************************************************************************)
(* H1Space::output_component / merge_baselists.                            *)
(* A baselist is a sequence of BaseComponent records [dof, coef]; a        *)
(* coefficient is a fixed-point number, CoefOne units make 1.0.            *)
(***************************************************************************)
CoefOne == 4

CoefValues == {2, 4}

BaseComponents == [dof : (-1)..MaxDof, coef : CoefValues]

\* Sorted ascending by DOF index, hence duplicate-free.
IsSortedBaselist(l) == \A k \in 1..(Len(l) - 1) : l[k].dof < l[k + 1].dof

Baselists ==
  UNION { { l \in [1..n -> BaseComponents] : IsSortedBaselist(l) } : n \in 0..MaxLen }

\* Node* edge with its NodeData (dof, n); present = FALSE is nullptr.
NoEdge == [present |-> FALSE, dof |-> 0, n |-> 0]

EdgeNodes ==
  {NoEdge} \cup { [present |-> TRUE, dof |-> d, n |-> n] : d \in 0..MaxDof, n \in 0..MaxEdgeN }

\* An array slot nothing has been written to.
Unset == [dof |-> -9, coef |-> 0]

\* The locals of merge_baselists: the result array (0-based), current and last
\* as indices into it (last = -1 is nullptr), edge as "still not placed", and
\* edge_dofs as an index (-1 while not set).
MergeStart(n1, n2, edge) ==
  LET max_result == n1 + n2 + (IF edge.present THEN edge.n ELSE 0)
  IN  [result |-> [x \in 0..(max_result - 1) |-> Unset],
       max_result |-> max_result,
       current |-> 0, last |-> -1, edge |-> edge.present, edge_dofs |-> -1]

output_component_bug_no_halving(m, min, edge) ==
  IF m.last # -1 /\ m.result[m.last].dof = min.dof
  THEN [m EXCEPT !.result[m.last].coef = @ + min.coef]
  ELSE LET hit == m.edge /\ edge.dof <= min.dof
           cur == IF hit /\ edge.dof # min.dof THEN m.current + edge.n ELSE m.current
       IN  [m EXCEPT !.edge_dofs = IF hit THEN m.current ELSE @,
                     !.edge = IF hit THEN FALSE ELSE @,
                     !.result[cur] = [dof |-> min.dof, coef |-> min.coef \div 2],
                     !.last = cur,
                     !.current = cur + 1]

output_component_bug_no_reserve(m, min, edge) ==
  IF m.last # -1 /\ m.result[m.last].dof = min.dof
  THEN [m EXCEPT !.result[m.last].coef = @ + min.coef \div 2]
  ELSE LET hit == m.edge /\ edge.dof <= min.dof
           cur == m.current
       IN  [m EXCEPT !.edge_dofs = IF hit THEN m.current ELSE @,
                     !.edge = IF hit THEN FALSE ELSE @,
                     !.result[cur] = [dof |-> min.dof, coef |-> min.coef \div 2],
                     !.last = cur,
                     !.current = cur + 1]

output_component(m, min, edge) ==
  IF m.last # -1 /\ m.result[m.last].dof = min.dof
  THEN \* the dof is already in the list: add half of the other coef
       [m EXCEPT !.result[m.last].coef = @ + min.coef \div 2]
  ELSE LET \* the edge node dofs belong in front of the current minimum dof
           hit == m.edge /\ edge.dof <= min.dof
           \* space is reserved only if the edge dofs are not in the list yet
           cur == IF hit /\ edge.dof # min.dof THEN m.current + edge.n ELSE m.current
       IN  [m EXCEPT !.edge_dofs = IF hit THEN m.current ELSE @,
                     !.edge = IF hit THEN FALSE ELSE @,
                     !.result[cur] = [dof |-> min.dof, coef |-> min.coef \div 2],
                     !.last = cur,
                     !.current = cur + 1]

\* The main loop and the two finishing loops (i1, i2 are 0-based as in the code).
RECURSIVE MergeLoop(_, _, _, _, _, _)
MergeLoop(m, l1, l2, i1, i2, edge) ==
  IF i1 < Len(l1) /\ i2 < Len(l2)
  THEN IF l1[i1 + 1].dof < l2[i2 + 1].dof
       THEN MergeLoop(output_component(m, l1[i1 + 1], edge), l1, l2, i1 + 1, i2, edge)
       ELSE MergeLoop(output_component(m, l2[i2 + 1], edge), l1, l2, i1, i2 + 1, edge)
  ELSE IF i1 < Len(l1)
       THEN MergeLoop(output_component(m, l1[i1 + 1], edge), l1, l2, i1 + 1, i2, edge)
       ELSE IF i2 < Len(l2)
            THEN MergeLoop(output_component(m, l2[i2 + 1], edge), l1, l2, i1, i2 + 1, edge)
            ELSE m

\* merge_baselists: the array returned (shrunk to ncomponents entries),
\* ncomponents and edge_dofs.
merge_baselists(l1, l2, edge) ==
  LET m == MergeLoop(MergeStart(Len(l1), Len(l2), edge), l1, l2, 0, 0, edge)
      \* space for the edge dofs is reserved at the end if not done already
      edge_dofs == IF m.edge THEN m.current ELSE m.edge_dofs
      current == IF m.edge THEN m.current + edge.n ELSE m.current
  IN  [result |-> [x \in 0..(current - 1) |-> m.result[x]],
       ncomponents |-> current,
       max_result |-> m.max_result,
       edge_dofs |-> edge_dofs]

\* Shapeset::get_fn_value of edge function k + 2 at the midpoint of the
\* constraining edge.
EdgeFnAtMid(k) == IF k % 2 = 0 THEN -2 ELSE 0

\* update_constrained_nodes, lines 496-500: the edge node coefficients are
\* written to the n slots starting at edge_dofs.  A slot at or beyond
\* ncomponents lies outside the shrunk array: the write is out of bounds.
RECURSIVE FillEdgeDofs(_, _, _, _, _)
FillEdgeDofs(result, ncomponents, edge_dofs, edge, k) ==
  IF k >= edge.n
  THEN result
  ELSE FillEdgeDofs(IF edge_dofs + k < ncomponents
                    THEN [result EXCEPT ![edge_dofs + k] =
                            [dof |-> edge.dof + k, coef |-> EdgeFnAtMid(k)]]
                    ELSE result,
                    ncomponents, edge_dofs, edge, k + 1)

FillOverruns(ncomponents, edge_dofs, edge) ==
  edge.present /\ edge.n > 0 /\ edge_dofs + edge.n > ncomponents

\* The baselist of a mid-edge vertex node: merge (lines 487-490), then the
\* fill of the edge node slots (lines 493-500).
MidEdgeBaselist(l1, l2, edge) ==
  LET mr == merge_baselists(l1, l2, edge)
  IN  [merged |-> mr,
       baselist |-> IF edge.present
                    THEN FillEdgeDofs(mr.result, mr.ncomponents, mr.edge_dofs, edge, 0)
                    ELSE mr.result,
       ncomponents |-> mr.ncomponents,
       overrun |-> FillOverruns(mr.ncomponents, mr.edge_dofs, edge)]

MergeInput(l1, l2, edge) ==
  [pc |-> "input", l1 |-> l1, l2 |-> l2, edge |-> edge]

\* The merge of update_constrained_nodes for one mid-edge vertex node.
merge_mid_edge_vertex ==
  /\ mg.pc = "input"
  /\ mg' = [pc |-> "done", l1 |-> mg.l1, l2 |-> mg.l2, edge |-> mg.edge,
            out |-> MidEdgeBaselist(mg.l1, mg.l2, mg.edge)]
  /\ UNCHANGED <<sp_seq, spaces_size, matrix_structure_reusable, previous_mat,
                 vector_structure_reusable, previous_rhs, wf, force_diagonal_blocks,
                 block_weights, space_seq, mats, vecs, last_call, seq_at_set,
                 seq_diff_seen, done_mat, assembled, sp, sel, reg, rk>>

InitMerge ==
  /\ sp_seq = <<>>
  /\ spaces_size = 0
  /\ matrix_structure_reusable = FALSE
  /\ previous_mat = 0
  /\ vector_structure_reusable = FALSE
  /\ previous_rhs = 0
  /\ wf = NoWf
  /\ force_diagonal_blocks = FALSE
  /\ block_weights = NoBlockWeights
  /\ space_seq = <<0>>
  /\ mats = [m \in Mats |-> EmptyMat]
  /\ vecs = [r \in Vecs |-> 0]
  /\ last_call = NoCall
  /\ seq_at_set = <<>>
  /\ seq_diff_seen = FALSE
  /\ done_mat = -1
  /\ assembled = NotAssembled
  /\ \E l1 \in Baselists : \E l2 \in Baselists : \E edge \in EdgeNodes :
       mg = MergeInput(l1, l2, edge)
  /\ sp = DofIdle
  /\ sel = SelIdle
  /\ reg = RegIdle
  /\ rk = RkIdle

NextMerge == merge_mid_edge_vertex

SpecMerge == InitMerge /\ [][NextMerge]_vars

(***************************************************************************)
(* H1Space: assignment of the DOFs.                                        *)
(***************************************************************************)
H2D_UNASSIGNED_DOF == -2

H2D_CONSTRAINED_DOF == -1

MaxRuns == 2       \* assign_dofs calls on one space

\* An edge node of the mesh: boundary flag, reference count, internal marker,
\* whether a vertex node lies between its endpoints (peek_vertex_node), and
\* the elements that refer to it (Node::elem).
EdgeNode(bnd, ref, marker, mid, elem) ==
  [bnd |-> bnd, ref |-> ref, marker |-> marker, mid |-> mid, elem |-> elem]

\* An element: sons[k + 1] is e->sons[k], 0 is nullptr.
Element(active, mode, vn, en) ==
  [active |-> active, mode |-> mode, vn |-> vn, en |-> en, sons |-> <<0, 0, 0, 0>>]

\* An element that has been split: inactive, with its sons.
SplitElement(mode, vn, en, sons) ==
  [active |-> FALSE, mode |-> mode, vn |-> vn, en |-> en, sons |-> sons]

\* One quadrilateral.
QuadMesh ==
  [vertices |-> 1..4, constrained |-> {},
   edges |-> (5 :> EdgeNode(TRUE, 1, 1, FALSE, <<1>>)) @@
             (6 :> EdgeNode(TRUE, 1, 2, FALSE, <<1>>)) @@
             (7 :> EdgeNode(TRUE, 1, 1, FALSE, <<1>>)) @@
             (8 :> EdgeNode(TRUE, 1, 2, FALSE, <<1>>)),
   elems |-> << Element(TRUE, "quad", <<1, 2, 3, 4>>, <<5, 6, 7, 8>>) >>,
   base |-> <<1>>]

\* Two triangles that share the edge 7.
TriMesh ==
  [vertices |-> 1..4, constrained |-> {},
   edges |-> (5 :> EdgeNode(TRUE, 1, 1, FALSE, <<1>>)) @@
             (6 :> EdgeNode(TRUE, 1, 2, FALSE, <<1>>)) @@
             (7 :> EdgeNode(FALSE, 2, 0, FALSE, <<1, 2>>)) @@
             (8 :> EdgeNode(TRUE, 1, 1, FALSE, <<2>>)) @@
             (9 :> EdgeNode(TRUE, 1, 2, FALSE, <<2>>)),
   elems |-> << Element(TRUE, "tri", <<1, 2, 3>>, <<5, 6, 7>>),
                Element(TRUE, "tri", <<1, 3, 4>>, <<7, 8, 9>>) >>,
   base |-> <<1, 2>>]

\* A quadrilateral (element 1) beside a quadrilateral (element 2) that is
\* split 'horizontally' into a lower (3) and an upper (4) son: vertex 7 hangs
\* in the middle of edge 10 of element 1; the half edges 16 and 19 are
\* constrained by edge 10.  (Edge 20 of the split element is no node of the
\* mesh any more.)
HangingMesh ==
  [vertices |-> 1..8, constrained |-> {7},
   edges |-> (9 :> EdgeNode(TRUE, 1, 1, FALSE, <<1>>)) @@
             (10 :> EdgeNode(FALSE, 1, 0, TRUE, <<1>>)) @@
             (11 :> EdgeNode(TRUE, 1, 1, FALSE, <<1>>)) @@
             (12 :> EdgeNode(TRUE, 1, 2, FALSE, <<1>>)) @@
             (13 :> EdgeNode(TRUE, 1, 1, FALSE, <<3>>)) @@
             (14 :> EdgeNode(TRUE, 1, 2, FALSE, <<3>>)) @@
             (15 :> EdgeNode(FALSE, 2, 0, FALSE, <<3, 4>>)) @@
             (16 :> EdgeNode(FALSE, 1, 0, FALSE, <<3>>)) @@
             (17 :> EdgeNode(TRUE, 1, 2, FALSE, <<4>>)) @@
             (18 :> EdgeNode(TRUE, 1, 1, FALSE, <<4>>)) @@
             (19 :> EdgeNode(FALSE, 1, 0, FALSE, <<4>>)),
   elems |-> << Element(TRUE, "quad", <<1, 2, 5, 4>>, <<9, 10, 11, 12>>),
                SplitElement("quad", <<2, 3, 6, 5>>, <<13, 20, 18, 10>>, <<3, 4, 0, 0>>),
                Element(TRUE, "quad", <<2, 3, 8, 7>>, <<13, 14, 15, 16>>),
                Element(TRUE, "quad", <<7, 8, 6, 5>>, <<15, 17, 18, 19>>) >>,
   base |-> <<1, 2>>]

\* One quadrilateral (element 1) split 'horizontally' into the sons 2 and 3:
\* the mid-edge vertices 5 and 6 lie on the boundary, no vertex hangs.  (The
\* edges 14 and 15 of the split element are no nodes of the mesh any more.)
SplitMesh ==
  [vertices |-> 1..6, constrained |-> {},
   edges |-> (7 :> EdgeNode(TRUE, 1, 1, FALSE, <<2>>)) @@
             (8 :> EdgeNode(TRUE, 1, 2, FALSE, <<2>>)) @@
             (9 :> EdgeNode(FALSE, 2, 0, FALSE, <<2, 3>>)) @@
             (10 :> EdgeNode(TRUE, 1, 1, FALSE, <<2>>)) @@
             (11 :> EdgeNode(TRUE, 1, 2, FALSE, <<3>>)) @@
             (12 :> EdgeNode(TRUE, 1, 2, FALSE, <<3>>)) @@
             (13 :> EdgeNode(TRUE, 1, 1, FALSE, <<3>>)),
   elems |-> << SplitElement("quad", <<1, 2, 3, 4>>, <<7, 14, 12, 15>>, <<2, 3, 0, 0>>),
                Element(TRUE, "quad", <<1, 2, 5, 6>>, <<7, 8, 9, 10>>),
                Element(TRUE, "quad", <<6, 5, 3, 4>>, <<9, 11, 12, 13>>) >>,
   base |-> <<1>>]

Meshes == <<QuadMesh, TriMesh, HangingMesh, SplitMesh>>

MeshOf(s) == Meshes[s.mesh]

Nodes(m) == m.vertices \cup DOMAIN m.edges

\* EssentialBCs: the marker cache (markers, BCs) and HermesAnyBC; a boundary
\* condition is its index in the list given, 0 is nullptr.
NoEssentialBCs == [present |-> FALSE, markers |-> <<>>, BCs |-> <<>>, HermesAnyBC |-> 0]

EssentialBCs(markers, BCs, any) ==
  [present |-> TRUE, markers |-> markers, BCs |-> BCs, HermesAnyBC |-> any]

EssentialBCsChoices ==
  { NoEssentialBCs,
    EssentialBCs(<<>>, <<>>, 0),
    EssentialBCs(<<"Bdy1">>, <<1>>, 0),
    EssentialBCs(<<"Bdy2">>, <<1>>, 0),
    EssentialBCs(<<>>, <<>>, 1) }

\* MarkersConversion::get_user_marker: internal integer to user string.
get_user_marker(marker) == IF marker = 1 THEN "Bdy1" ELSE IF marker = 2 THEN "Bdy2" ELSE ""

get_boundary_condition_bug_no_any(ebc, marker) ==
  IF \E i \in 1..Len(ebc.markers) : ebc.markers[i] = marker
  THEN ebc.BCs[CHOOSE i \in 1..Len(ebc.markers) :
                 ebc.markers[i] = marker
                 /\ \A j \in 1..(i - 1) : ebc.markers[j] # marker]
  ELSE 0

get_boundary_condition(ebc, marker) ==
  IF ebc.HermesAnyBC # 0
  THEN ebc.HermesAnyBC
  ELSE IF \E i \in 1..Len(ebc.markers) : ebc.markers[i] = marker
       THEN ebc.BCs[CHOOSE i \in 1..Len(ebc.markers) :
                      ebc.markers[i] = marker
                      /\ \A j \in 1..(i - 1) : ebc.markers[j] # marker]
       ELSE 0

\* The test of assign_edge_dofs, lines 156-158.
EdgeIsEssential(s, en) ==
  /\ MeshOf(s).edges[en].bnd
  /\ s.ebc.present
  /\ get_boundary_condition(s.ebc, get_user_marker(MeshOf(s).edges[en].marker)) # 0

\* Space::get_edge_order_internal: the smaller order of the elements at the
\* edge, an element of order 0 not counting.
get_edge_order_internal(s, en) ==
  LET es == MeshOf(s).edges[en].elem
      o1 == s.order[es[1]]
      o2 == IF Len(es) = 2 THEN s.order[es[2]] ELSE 1000
  IN  IF o1 = 0 THEN (IF o2 = 1000 THEN 0 ELSE o2)
      ELSE IF o2 = 0 THEN o1
      ELSE Min(o1, o2)

\* Shapeset::get_num_bubbles(order, mode).
get_num_bubbles(order, mode) ==
  IF mode = "tri"
  THEN (IF order < 3 THEN 0 ELSE ((order - 1) * (order - 2)) \div 2)
  ELSE (IF order < 2 THEN 0 ELSE (order - 1) * (order - 1))

\* Space::reset_dof_assignment: every node unassigned with n = 1; the vertex
\* nodes of boundary edges with an essential boundary condition get n = 0.
reset_dof_assignment(s) ==
  LET m == MeshOf(s)
      essential == { v \in m.vertices :
                       \E e \in 1..Len(m.elems) : \E i \in 1..Len(m.elems[e].vn) :
                         /\ m.elems[e].active
                         /\ EdgeIsEssential(s, m.elems[e].en[i])
                         /\ v \in { m.elems[e].vn[i],
                                    m.elems[e].vn[(i % Len(m.elems[e].vn)) + 1] } }
  IN  [id \in Nodes(m) |->
         [dof |-> H2D_UNASSIGNED_DOF, n |-> IF id \in essential THEN 0 ELSE 1]]

\* ---- assign_vertex_dofs
VertexPassStart_bug_count_kept(s) == s

VertexPassStart(s) == [s EXCEPT !.vertex_functions_count = 0]

VertexIsAssignable_bug_hanging(s, vn) == s.ndata[vn].dof = H2D_UNASSIGNED_DOF

\* Line 112.
VertexIsAssignable(s, vn) ==
  vn \notin MeshOf(s).constrained /\ s.ndata[vn].dof = H2D_UNASSIGNED_DOF

VisitVertex_bug_no_sentinel(s, vn) ==
  IF VertexIsAssignable(s, vn)
  THEN [s EXCEPT !.ndata[vn] = [dof |-> s.next_dof, n |-> 1],
                 !.next_dof = @ + 1,
                 !.vertex_functions_count = @ + 1]
  ELSE s

\* Lines 110-124, one vertex node of one element.
VisitVertex(s, vn) ==
  IF VertexIsAssignable(s, vn)
  THEN IF s.ndata[vn].n = 0
       THEN [s EXCEPT !.ndata[vn] = [dof |-> H2D_CONSTRAINED_DOF, n |-> 1]]
       ELSE [s EXCEPT !.ndata[vn] = [dof |-> s.next_dof, n |-> 1],
                      !.next_dof = @ + 1,
                      !.vertex_functions_count = @ + 1]
  ELSE s

RECURSIVE VertexLoop(_, _, _)
VertexLoop(s, e, i) ==
  LET m == MeshOf(s)
  IN  IF e > Len(m.elems) THEN s
      ELSE IF ~m.elems[e].active \/ ~(s.order[e] > 0) \/ i > Len(m.elems[e].vn)
           THEN VertexLoop(s, e + 1, 1)
           ELSE VertexLoop(VisitVertex(s, m.elems[e].vn[i]), e, i + 1)

\* ---- assign_edge_dofs
EdgeAdvance_bug_stuck(next_dof, ndofs) == next_dof

\* this->next_dof += ndofs
EdgeAdvance(next_dof, ndofs) == next_dof + ndofs

\* Line 151.
EdgeIsUnconstrained(m, en) == m.edges[en].ref > 1 \/ m.edges[en].bnd \/ m.edges[en].mid

\* Lines 145-180, one edge node of one element.  The visit of a still
\* unassigned edge node is recorded in edge_log.
VisitEdge(s, e, en) ==
  IF s.ndata[en].dof = H2D_UNASSIGNED_DOF
  THEN IF EdgeIsUnconstrained(MeshOf(s), en)
       THEN LET ndofs == get_edge_order_internal(s, en) - 1
            IN  IF EdgeIsEssential(s, en)
                THEN [s EXCEPT !.ndata[en] = [dof |-> H2D_CONSTRAINED_DOF, n |-> ndofs],
                               !.edge_log = Append(@, [en |-> en, elem |-> e,
                                                       before |-> s.next_dof,
                                                       after |-> s.next_dof])]
                ELSE [s EXCEPT !.ndata[en] = [dof |-> s.next_dof, n |-> ndofs],
                               !.next_dof = EdgeAdvance(s.next_dof, ndofs),
                               !.edge_functions_count = @ + ndofs,
                               !.edge_log = Append(@, [en |-> en, elem |-> e,
                                                       before |-> s.next_dof,
                                                       after |-> EdgeAdvance(s.next_dof, ndofs)])]
       ELSE [s EXCEPT !.ndata[en].n = -1,
                      !.edge_log = Append(@, [en |-> en, elem |-> e,
                                              before |-> s.next_dof,
                                              after |-> s.next_dof])]
  ELSE s

RECURSIVE EdgeLoop(_, _, _)
EdgeLoop(s, e, i) ==
  LET m == MeshOf(s)
  IN  IF e > Len(m.elems) THEN s
      ELSE IF ~m.elems[e].active \/ ~(s.order[e] > 0) \/ i > Len(m.elems[e].en)
           THEN EdgeLoop(s, e + 1, 1)
           ELSE EdgeLoop(VisitEdge(s, e, m.elems[e].en[i]), e, i + 1)

\* ---- assign_bubble_dofs
RECURSIVE BubbleLoop(_, _)
BubbleLoop(s, e) ==
  LET m == MeshOf(s)
  IN  IF e > Len(m.elems) THEN s
      ELSE IF ~m.elems[e].active
           THEN BubbleLoop(s, e + 1)
           ELSE LET n == get_num_bubbles(s.order[e], m.elems[e].mode)
                IN  BubbleLoop([s EXCEPT !.edata[e] = [bdof |-> s.next_dof, n |-> n],
                                         !.next_dof = @ + n,
                                         !.bubble_functions_count = @ + n],
                               e + 1)

\* ---- update_constraints / update_constrained_nodes
\* What the walk leaves behind: the baselists created (one per merge_baselists
\* call), the edge nodes given a base and a part, and the numbers of edge infos
\* synthesized and of edge infos passed to a son.
NoConstraints == [bl |-> <<>>, edges |-> <<>>, synth |-> 0, passed |-> 0]

\* Deepest bisection of one constraining edge.
MaxSplit == 3

\* The parameter interval of an edge is [-1, 1]; lo and hi are counted in
\* units of 1 / IntervalUnit, so that every bisection down to MaxSplit is
\* exact (as it is for the doubles of the code).
IntervalUnit == 2 ^ MaxSplit

\* EdgeInfo*: present = FALSE is nullptr.
NoEdgeInfo == [present |-> FALSE, node |-> 0, part |-> 0, ori |-> 0, lo |-> 0, hi |-> 0]

\* Lines 444-449: the edge info made at the element where the constraint
\* starts.
NewEdgeInfo(mid_en, ori) ==
  [present |-> TRUE, node |-> mid_en, part |-> -1, ori |-> ori,
   lo |-> -IntervalUnit, hi |-> IntervalUnit]

NoEdgeInfos == <<NoEdgeInfo, NoEdgeInfo, NoEdgeInfo, NoEdgeInfo>>

\* Element::next_vert / prev_vert (vertex numbers are 0-based as in the code).
next_vert(el, i) == (i + 1) % Len(el.vn)

prev_vert(el, i) == (i + Len(el.vn) - 1) % Len(el.vn)

\* Node::is_constrained_vertex.
is_constrained_vertex(m, vn) == vn \in m.constrained

\* Space::get_mid_edge_vertex_node: the vertex node in the middle of edge i of
\* a split element, 0 (nullptr) if the split does not halve that edge.
get_mid_edge_vertex_node(m, e, i) ==
  LET el == m.elems[e]
  IN  IF el.mode = "tri" THEN m.elems[el.sons[4]].vn[prev_vert(el, i) + 1]
      ELSE IF el.sons[3] = 0
           THEN (IF i = 1 THEN m.elems[el.sons[1]].vn[3]
                 ELSE IF i = 3 THEN m.elems[el.sons[1]].vn[4] ELSE 0)
           ELSE IF el.sons[1] = 0
                THEN (IF i = 0 THEN m.elems[el.sons[3]].vn[2]
                      ELSE IF i = 2 THEN m.elems[el.sons[3]].vn[3] ELSE 0)
                ELSE m.elems[el.sons[i + 1]].vn[next_vert(el, i) + 1]

\* Mesh::peek_edge_node: the edge node between two vertex nodes, 0 if the mesh
\* has none.
peek_edge_node(m, a, b) ==
  LET at == { en \in DOMAIN m.edges :
                \E e \in 1..Len(m.elems) : \E i \in 1..Len(m.elems[e].vn) :
                  /\ m.elems[e].en[i] = en
                  /\ {m.elems[e].vn[i], m.elems[e].vn[(i % Len(m.elems[e].vn)) + 1]} = {a, b} }
  IN  IF at = {} THEN 0 ELSE CHOOSE en \in at : TRUE

\* Projected boundary value at a vertex node with an essential condition.
vertex_bc_coef(vn) == IF vn % 2 = 0 THEN 2 ELSE 0

\* Lines 470-485: the baselist of an endpoint vertex node, an artificial one
\* if the vertex is unconstrained.
EndpointBaselist(s, cons, vn) ==
  IF is_constrained_vertex(MeshOf(s), vn)
  THEN LET at == { k \in 1..Len(cons.bl) : cons.bl[k].vn = vn }
       IN  IF at = {} THEN <<>>
           ELSE LET b == cons.bl[CHOOSE k \in at : TRUE]
                IN  [x \in 1..b.ncomponents |-> b.baselist[x - 1]]
  ELSE << [dof |-> s.ndata[vn].dof,
           coef |-> IF s.ndata[vn].dof >= 0 THEN CoefOne ELSE vertex_bc_coef(vn)] >>

HalfEdgePart_bug_negated(part, ori) == IF ori = 1 THEN -part ELSE part

\* nd->part of a constrained edge node: the part of the edge info,
\* complemented (part ^= ~0) if ori is set.
HalfEdgePart(part, ori) == IF ori = 1 THEN -part - 1 ELSE part

EdgeInfoApplies_bug_always(info) == TRUE

\* Line 419.
EdgeInfoApplies(info) == info.present

\* Lines 415-427: an active element passes the edge infos it was given on to
\* its edge nodes.
ApplyEdgeInfos(cons, el, ei) ==
  LET at == { i \in 1..Len(el.vn) : EdgeInfoApplies(ei[i]) }
  IN  [cons EXCEPT !.edges = @ \o
         [k \in 1..Cardinality(at) |->
            LET i == CHOOSE x \in at : Cardinality({ u \in at : u < x }) = k - 1
            IN  [en |-> el.en[i], base |-> ei[i].node,
                 part |-> HalfEdgePart(ei[i].part, ei[i].ori)]]]

\* Lines 433-453: the edge info of edge i of a split element, a new one where
\* none came in and the mid-edge vertex node is constrained.
MakesEdgeInfo(m, e, ei, i) ==
  LET el == m.elems[e]
      mid_vn == get_mid_edge_vertex_node(m, e, i)
  IN  /\ ~ei[i + 1].present
      /\ mid_vn # 0
      /\ is_constrained_vertex(m, mid_vn)
      /\ peek_edge_node(m, el.vn[i + 1], el.vn[next_vert(el, i) + 1]) # 0

CreateEdgeInfos(m, e, ei) ==
  LET el == m.elems[e]
  IN  [x \in 1..4 |->
         IF x <= Len(el.vn) /\ MakesEdgeInfo(m, e, ei, x - 1)
         THEN NewEdgeInfo(peek_edge_node(m, el.vn[x], el.vn[next_vert(el, x - 1) + 1]),
                          IF el.vn[x] < el.vn[next_vert(el, x - 1) + 1] THEN 0 ELSE 1)
         ELSE ei[x]]

\* Lines 456-501: a baselist for each mid-edge vertex node of a split element.
RECURSIVE MidEdgeLoop(_, _, _, _, _)
MidEdgeLoop(s, cons, e, ei, i) ==
  LET m == MeshOf(s)
      el == m.elems[e]
  IN  IF i >= Len(el.vn) THEN cons
      ELSE IF ~ei[i + 1].present \/ get_mid_edge_vertex_node(m, e, i) = 0
           THEN MidEdgeLoop(s, cons, e, ei, i + 1)
           ELSE LET nd == s.ndata[ei[i + 1].node]
                    en == [present |-> TRUE, dof |-> nd.dof, n |-> nd.n]
                    out == MidEdgeBaselist(
                             EndpointBaselist(s, cons, el.vn[i + 1]),
                             EndpointBaselist(s, cons, el.vn[next_vert(el, i) + 1]), en)
                IN  MidEdgeLoop(s,
                      [cons EXCEPT !.bl =
                         Append(@, [vn |-> get_mid_edge_vertex_node(m, e, i),
                                    baselist |-> out.baselist,
                                    ncomponents |-> out.ncomponents,
                                    overrun |-> out.overrun])],
                      e, ei, i + 1)

HalfEdgeInfo_bug_same_part(info, k) ==
  IF ~info.present THEN NoEdgeInfo
  ELSE [present |-> TRUE, node |-> info.node,
        part |-> (info.part + 1) * 2, ori |-> info.ori,
        lo |-> IF k = 0 THEN info.lo ELSE (info.lo + info.hi) \div 2,
        hi |-> IF k = 0 THEN (info.lo + info.hi) \div 2 ELSE info.hi]

\* Lines 504-525: the edge info of half k (0 or 1) of an edge.
HalfEdgeInfo(info, k) ==
  IF ~info.present THEN NoEdgeInfo
  ELSE [present |-> TRUE, node |-> info.node,
        part |-> (info.part + 1) * 2 + k, ori |-> info.ori,
        lo |-> IF k = 0 THEN info.lo ELSE (info.lo + info.hi) \div 2,
        hi |-> IF k = 0 THEN (info.lo + info.hi) \div 2 ELSE info.hi]

SonCalls_bug_son_skipped(el, ei) ==
  LET h(i, k) == HalfEdgeInfo(ei[i + 1], k)
      none == NoEdgeInfo
  IN  IF el.mode = "tri"
      THEN << <<el.sons[1], <<h(0, 0), none, h(2, 1), none>> >>,
              <<el.sons[2], <<h(0, 1), h(1, 0), none, none>> >>,
              <<el.sons[3], <<none, none, h(2, 0), none>> >>,
              <<el.sons[4], <<none, none, none, none>> >> >>
      ELSE IF el.sons[3] = 0
           THEN << <<el.sons[1], <<ei[1], h(1, 0), ei[3], h(3, 1)>> >>,
                   <<el.sons[2], <<none, h(1, 1), ei[3], h(3, 0)>> >> >>
           ELSE IF el.sons[1] = 0
                THEN << <<el.sons[3], <<h(0, 0), none, h(2, 1), ei[4]>> >>,
                        <<el.sons[4], <<h(0, 1), none, h(2, 0), none>> >> >>
                ELSE << <<el.sons[1], <<h(0, 0), none, none, h(3, 1)>> >>,
                        <<el.sons[2], <<h(0, 1), h(1, 0), none, none>> >>,
                        <<el.sons[3], <<none, none, h(2, 0), none>> >>,
                        <<el.sons[4], <<none, none, h(2, 1), h(3, 0)>> >> >>

\* Lines 528-551: the sons a split element recurs to, each with its four edge
\* infos.
SonCalls(el, ei) ==
  LET h(i, k) == HalfEdgeInfo(ei[i + 1], k)
      none == NoEdgeInfo
  IN  IF el.mode = "tri"
      THEN << <<el.sons[1], <<h(0, 0), none, h(2, 1), none>> >>,
              <<el.sons[2], <<h(0, 1), h(1, 0), none, none>> >>,
              <<el.sons[3], <<none, h(1, 1), h(2, 0), none>> >>,
              <<el.sons[4], <<none, none, none, none>> >> >>
      ELSE IF el.sons[3] = 0
           THEN << <<el.sons[1], <<ei[1], h(1, 0), none, h(3, 1)>> >>,
                   <<el.sons[2], <<none, h(1, 1), ei[3], h(3, 0)>> >> >>
           ELSE IF el.sons[1] = 0
                THEN << <<el.sons[3], <<h(0, 0), none, h(2, 1), ei[4]>> >>,
                        <<el.sons[4], <<h(0, 1), ei[2], h(2, 0), none>> >> >>
                ELSE << <<el.sons[1], <<h(0, 0), none, none, h(3, 1)>> >>,
                        <<el.sons[2], <<h(0, 1), h(1, 0), none, none>> >>,
                        <<el.sons[3], <<none, h(1, 1), h(2, 0), none>> >>,
                        <<el.sons[4], <<none, none, h(2, 1), h(3, 0)>> >> >>

PresentInfos(eis) == Cardinality({ x \in 1..Len(eis) : eis[x].present })

RECURSIVE SumPassed(_, _)
SumPassed(calls, k) ==
  IF k > Len(calls) THEN 0 ELSE PresentInfos(calls[k][2]) + SumPassed(calls, k + 1)

\* update_constrained_nodes(e, ei0, ei1, ei2, ei3)
RECURSIVE update_constrained_nodes(_, _, _, _)
RECURSIVE RecurToSons(_, _, _, _)
update_constrained_nodes(s, cons, e, ei) ==
  LET m == MeshOf(s)
      el == m.elems[e]
  IN  IF s.order[e] = 0 THEN cons
      ELSE IF el.active THEN ApplyEdgeInfos(cons, el, ei)
      ELSE LET eis == CreateEdgeInfos(m, e, ei)
               made == Cardinality({ i \in 0..(Len(el.vn) - 1) : MakesEdgeInfo(m, e, ei, i) })
               calls == SonCalls(el, eis)
               merged == MidEdgeLoop(s, cons, e, eis, 0)
           IN  RecurToSons(s, [merged EXCEPT !.synth = @ + made,
                                             !.passed = @ + SumPassed(calls, 1)],
                           calls, 1)

RecurToSons(s, cons, calls, k) ==
  IF k > Len(calls) THEN cons
  ELSE RecurToSons(s, update_constrained_nodes(s, cons, calls[k][1], calls[k][2]),
                   calls, k + 1)

\* update_constraints: every base element, without edge infos.
RECURSIVE ConstraintLoop(_, _, _)
ConstraintLoop(s, cons, k) ==
  IF k > Len(MeshOf(s).base) THEN cons
  ELSE ConstraintLoop(s, update_constrained_nodes(s, cons, MeshOf(s).base[k], NoEdgeInfos),
                      k + 1)

\* ---- get_vertex_assembly_list
KeepsComponent_bug_all(c) == TRUE

\* Line 217: a component of a baselist is passed on unless its coefficient is 0.
KeepsComponent(c) == c.coef # 0

\* The triplets (shape index, dof, coef) that vertex iv (0-based) of element e
\* adds to the assembly list; the vertex number stands for the shape index.
get_vertex_assembly_list(s, e, iv) ==
  LET vn == MeshOf(s).elems[e].vn[iv + 1]
      nd == s.ndata[vn]
      at == { k \in 1..Len(s.cons.bl) : s.cons.bl[k].vn = vn }
  IN  IF ~is_constrained_vertex(MeshOf(s), vn)
      THEN << [idx |-> iv, dof |-> nd.dof,
               coef |-> IF nd.dof >= 0 THEN CoefOne ELSE vertex_bc_coef(vn)] >>
      ELSE IF at = {} THEN <<>>
           ELSE LET b == s.cons.bl[CHOOSE k \in at : \A u \in at : u <= k]
                    kept == SelectSeq([x \in 1..b.ncomponents |-> b.baselist[x - 1]],
                                      KeepsComponent)
                IN  [x \in 1..Len(kept) |->
                       [idx |-> iv, dof |-> kept[x].dof, coef |-> kept[x].coef]]

\* What an assignment leaves behind.
Numbering(s) ==
  [ndata |-> s.ndata, edata |-> s.edata, ndof |-> s.ndof,
   vertex_functions_count |-> s.vertex_functions_count,
   edge_functions_count |-> s.edge_functions_count,
   bubble_functions_count |-> s.bubble_functions_count,
   cons |-> s.cons]

\* ---- the steps of Space::assign_dofs
assign_dofs_begin ==
  /\ sp.pc \in {"created", "assigned"}
  /\ sp.runs < MaxRuns
  /\ sp' = [sp EXCEPT !.pc = "reset",
                      !.prev = IF sp.pc = "assigned" THEN Numbering(sp) ELSE @,
                      !.next_dof = 0,
                      !.ndata = reset_dof_assignment(sp),
                      !.edge_log = <<>>,
                      !.al = <<>>]
  /\ UNCHANGED <<asmVars, mg, sel, reg, rk>>

assign_vertex_dofs ==
  /\ sp.pc = "reset"
  /\ sp' = [VertexLoop(VertexPassStart(sp), 1, 1) EXCEPT !.pc = "vertex"]
  /\ UNCHANGED <<asmVars, mg, sel, reg, rk>>

assign_edge_dofs ==
  /\ sp.pc = "vertex"
  /\ sp' = [EdgeLoop([sp EXCEPT !.edge_functions_count = 0], 1, 1) EXCEPT !.pc = "edge"]
  /\ UNCHANGED <<asmVars, mg, sel, reg, rk>>

assign_bubble_dofs ==
  /\ sp.pc = "edge"
  /\ sp' = [BubbleLoop([sp EXCEPT !.bubble_functions_count = 0], 1) EXCEPT !.pc = "bubble"]
  /\ UNCHANGED <<asmVars, mg, sel, reg, rk>>

update_constraints ==
  /\ sp.pc = "bubble"
  /\ sp' = [sp EXCEPT !.pc = "constraints",
                      !.cons = ConstraintLoop(sp, NoConstraints, 1)]
  /\ UNCHANGED <<asmVars, mg, sel, reg, rk>>

assign_dofs_end ==
  /\ sp.pc = "constraints"
  /\ sp' = [sp EXCEPT !.pc = "assigned", !.ndof = sp.next_dof, !.runs = @ + 1]
  /\ UNCHANGED <<asmVars, mg, sel, reg, rk>>

\* The vertex part of the assembly lists of the active elements with an order,
\* read after an assignment: al[e][iv + 1] is what vertex iv of element e adds.
get_vertex_assembly_lists ==
  /\ sp.pc = "assigned"
  /\ sp.al = <<>>
  /\ sp' = [sp EXCEPT !.al =
        [e \in 1..Len(MeshOf(sp).elems) |->
           IF MeshOf(sp).elems[e].active /\ sp.order[e] > 0
           THEN [x \in 1..Len(MeshOf(sp).elems[e].vn) |->
                   get_vertex_assembly_list(sp, e, x - 1)]
           ELSE <<>>]]
  /\ UNCHANGED <<asmVars, mg, sel, reg, rk>>

\* A space whose tables are sized for its mesh, before the first assign_dofs.
NewSpace(mesh, order, ebc) ==
  [pc |-> "created", mesh |-> mesh, order |-> order, ebc |-> ebc,
   ndata |-> [id \in Nodes(Meshes[mesh]) |-> [dof |-> H2D_UNASSIGNED_DOF, n |-> 1]],
   edata |-> [e \in 1..Len(Meshes[mesh].elems) |-> [bdof |-> 0, n |-> 0]],
   next_dof |-> 0, ndof |-> 0,
   vertex_functions_count |-> 0, edge_functions_count |-> 0,
   bubble_functions_count |-> 0,
   edge_log |-> <<>>, cons |-> NoConstraints, runs |-> 0, prev |-> <<>>,
   al |-> <<>>]

\* ---- H1Space::H1Space / H1Space::init
\* Space::assign_dofs as one call: the steps above in their order.
assign_dofs(s) ==
  LET s0 == [s EXCEPT !.next_dof = 0, !.ndata = reset_dof_assignment(s),
                      !.edge_log = <<>>, !.al = <<>>]
      s1 == VertexLoop(VertexPassStart(s0), 1, 1)
      s2 == EdgeLoop([s1 EXCEPT !.edge_functions_count = 0], 1, 1)
      s3 == BubbleLoop([s2 EXCEPT !.bubble_functions_count = 0], 1)
      s4 == [s3 EXCEPT !.cons = ConstraintLoop(s3, NoConstraints, 1)]
  IN  [s4 EXCEPT !.pc = "assigned", !.ndof = s4.next_dof, !.runs = @ + 1]

\* The space the base constructor leaves: mesh and boundary conditions set,
\* no element order (-1), no DOF; p_init is the argument init is called with.
UnorderedSpace(mesh, ebc) ==
  [NewSpace(mesh, [e \in 1..Len(Meshes[mesh].elems) |-> -1], ebc)
     EXCEPT !.pc = "constructing"] @@ [p_init |-> 0]

p_init_invalid_bug_zero_allowed(p_init) == p_init < 0

\* Line 38.
p_init_invalid(p_init) == p_init < 1

\* H1Space::init(shapeset, p_init, assign_dofs_init), called by the
\* constructors: the check of p_init, the uniform order, the enumeration.
H1Space_init(p_init, assign_dofs_init) ==
  /\ sp.pc = "constructing"
  /\ IF p_init_invalid(p_init)
     THEN sp' = [sp EXCEPT !.pc = "failed", !.p_init = p_init]
     ELSE LET s == [sp EXCEPT !.pc = "created", !.p_init = p_init,
                              !.order = [e \in DOMAIN sp.order |-> p_init]]
          IN  sp' = IF assign_dofs_init THEN assign_dofs(s) ELSE s
  /\ UNCHANGED <<asmVars, mg, sel, reg, rk>>

InitCtor ==
  /\ sp_seq = <<>>
  /\ spaces_size = 0
  /\ matrix_structure_reusable = FALSE
  /\ previous_mat = 0
  /\ vector_structure_reusable = FALSE
  /\ previous_rhs = 0
  /\ wf = NoWf
  /\ force_diagonal_blocks = FALSE
  /\ block_weights = NoBlockWeights
  /\ space_seq = <<0>>
  /\ mats = [m \in Mats |-> EmptyMat]
  /\ vecs = [r \in Vecs |-> 0]
  /\ last_call = NoCall
  /\ seq_at_set = <<>>
  /\ seq_diff_seen = FALSE
  /\ done_mat = -1
  /\ assembled = NotAssembled
  /\ mg = MergeIdle
  /\ sel = SelIdle
  /\ reg = RegIdle
  /\ rk = RkIdle
  /\ \E mesh \in 1..Len(Meshes) : \E ebc \in EssentialBCsChoices :
       sp = UnorderedSpace(mesh, ebc)

NextCtor ==
  \E p_init \in -1..MaxOrder : \E assign_dofs_init \in BOOLEAN :
    H1Space_init(p_init, assign_dofs_init)

SpecCtor == InitCtor /\ [][NextCtor]_vars

InitDof ==
  /\ sp_seq = <<>>
  /\ spaces_size = 0
  /\ matrix_structure_reusable = FALSE
  /\ previous_mat = 0
  /\ vector_structure_reusable = FALSE
  /\ previous_rhs = 0
  /\ wf = NoWf
  /\ force_diagonal_blocks = FALSE
  /\ block_weights = NoBlockWeights
  /\ space_seq = <<0>>
  /\ mats = [m \in Mats |-> EmptyMat]
  /\ vecs = [r \in Vecs |-> 0]
  /\ last_call = NoCall
  /\ seq_at_set = <<>>
  /\ seq_diff_seen = FALSE
  /\ done_mat = -1
  /\ assembled = NotAssembled
  /\ mg = MergeIdle
  /\ sel = SelIdle
  /\ reg = RegIdle
  /\ rk = RkIdle
  /\ sp \in UNION { { NewSpace(mesh, order, ebc) :
                        order \in [1..Len(Meshes[mesh].elems) -> 0..MaxOrder],
                        ebc \in EssentialBCsChoices }
                    : mesh \in 1..Len(Meshes) }

NextDof ==
  \/ assign_dofs_begin
  \/ assign_vertex_dofs
  \/ assign_edge_dofs
  \/ assign_bubble_dofs
  \/ update_constraints
  \/ assign_dofs_end
  \/ get_vertex_assembly_lists

SpecDof == InitDof /\ [][NextDof]_vars

(***************************************************************************)
(* Specification of EssentialBCs: the list all of the boundary conditions  *)
(* added, each one the list of its markers, and the marker cache built     *)
(* from it.  A boundary condition is its position in all, 0 is nullptr.    *)
(***************************************************************************)
\* The largest number of boundary conditions added in a behaviour.
MaxBCs == 3

\* The marker lists of the boundary conditions given to the add operations.
BoundaryConditions ==
  { <<"Bdy1">>, <<"Bdy2">>, <<"Bdy1", "Bdy2">>, <<HERMES_ANY>>, <<>>,
    <<"Bdy2", HERMES_ANY>> }

\* Lines 178-179: the pairs (boundary condition, marker) in the order of the
\* two loops, from the k-th boundary condition on.
RECURSIVE MarkerPairs(_, _)
MarkerPairs(all, k) ==
  IF k > Len(all)
  THEN <<>>
  ELSE [i \in 1..Len(all[k]) |-> <<k, all[k][i]>>] \o MarkerPairs(all, k + 1)

DescribedTwice_bug_unchecked(c, marker) == FALSE

\* Lines 192-194: the marker is in the cache already.
DescribedTwice(c, marker) == \E i \in 1..Len(c.markers) : c.markers[i] = marker

AnyWithSpecific ==
  "Attempt to define a BC on HERMES_ANY together with a BC on a specific part: '%s'."

MoreThanOne ==
  "Attempt to define more than one description of the BC on the same part of the boundary with marker '%s'."

\* Lines 180-197: the body of the loops for the n-th pair and the pairs after.
RECURSIVE CacheFrom(_, _, _)
CacheFrom(c, pairs, n) ==
  IF n > Len(pairs)
  THEN c
  ELSE LET iterator == pairs[n][1]
           it == pairs[n][2]
       IN  IF c.hermes_any_set
           THEN [c EXCEPT !.threw = TRUE, !.error = AnyWithSpecific]
           ELSE IF it = HERMES_ANY
                THEN IF c.any_set # 0
                     THEN [c EXCEPT !.threw = TRUE, !.error = AnyWithSpecific]
                     ELSE CacheFrom([c EXCEPT !.hermes_any_set = TRUE,
                                              !.HermesAnyBC = iterator],
                                    pairs, n + 1)
                ELSE IF DescribedTwice(c, it)
                     THEN [c EXCEPT !.any_set = iterator, !.threw = TRUE,
                                    !.error = MoreThanOne]
                     ELSE CacheFrom([c EXCEPT !.any_set = iterator,
                                              !.markers = Append(@, it),
                                              !.BCs = Append(@, iterator)],
                                    pairs, n + 1)

\* Lines 172-199: create_marker_cache on the list all; HermesAnyBC keeps the
\* value it has.
create_marker_cache(all, HermesAnyBC) ==
  CacheFrom([markers |-> <<>>, BCs |-> <<>>, HermesAnyBC |-> HermesAnyBC,
             hermes_any_set |-> FALSE, any_set |-> 0, threw |-> FALSE,
             error |-> ""],
            MarkerPairs(all, 1), 1)

\* Lines 137-145: the conditions are pushed to all, then the cache is made.
add_boundary_conditions(boundary_conditions) ==
  /\ sp.pc = "bcs"
  /\ Len(sp.all) + Len(boundary_conditions) <= MaxBCs
  /\ LET all == sp.all \o boundary_conditions
         c == create_marker_cache(all, sp.HermesAnyBC)
     IN  sp' = [pc |-> "bcs", all |-> all, markers |-> c.markers, BCs |-> c.BCs,
                HermesAnyBC |-> c.HermesAnyBC,
                last |-> [op |-> "add_boundary_conditions", threw |-> c.threw,
                          error |-> c.error, failed |-> sp.last.failed \/ c.threw]]
  /\ UNCHANGED <<asmVars, mg, sel, reg, rk>>

\* Lines 147-153.
add_boundary_condition(boundary_condition) ==
  add_boundary_conditions(<< boundary_condition >>)

\* EssentialBCs(): no condition, an empty cache, HermesAnyBC(nullptr).
InitBCs ==
  /\ sp_seq = <<>>
  /\ spaces_size = 0
  /\ matrix_structure_reusable = FALSE
  /\ previous_mat = 0
  /\ vector_structure_reusable = FALSE
  /\ previous_rhs = 0
  /\ wf = NoWf
  /\ force_diagonal_blocks = FALSE
  /\ block_weights = NoBlockWeights
  /\ space_seq = <<0>>
  /\ mats = [m \in Mats |-> EmptyMat]
  /\ vecs = [r \in Vecs |-> 0]
  /\ last_call = NoCall
  /\ seq_at_set = <<>>
  /\ seq_diff_seen = FALSE
  /\ done_mat = -1
  /\ assembled = NotAssembled
  /\ mg = MergeIdle
  /\ sel = SelIdle
  /\ reg = RegIdle
  /\ rk = RkIdle
  /\ sp = [pc |-> "bcs", all |-> <<>>, markers |-> <<>>, BCs |-> <<>>,
           HermesAnyBC |-> 0,
           last |-> [op |-> "none", threw |-> FALSE, error |-> "", failed |-> FALSE]]

NextBCs ==
  \/ \E boundary_condition \in BoundaryConditions :
       add_boundary_condition(boundary_condition)
  \/ \E first \in BoundaryConditions : \E second \in BoundaryConditions :
       add_boundary_conditions(<< first, second >>)

SpecBCs == InitBCs /\ [][NextBCs]_vars

(***************************************************************************)
(* The sub-segments of one constraining edge: the edge info made where the *)
(* constraint starts and the half edge infos the split elements along the  *)
(* edge hand to their sons (update_constrained_nodes, lines 431-453 and    *)
(* 503-525).  leaves are the edge infos not bisected so far, all every     *)
(* edge info made, last the bisection just done.                           *)
(***************************************************************************)
\* The number of bisections that led to an edge info.
SplitDepth(info) ==
  CHOOSE d \in 0..(MaxSplit + 1) : (info.hi - info.lo) * (2 ^ d) = 2 * IntervalUnit

\* A split element along the edge makes the two halves of one edge info.
bisect_edge_info(info) ==
  /\ mg.pc = "segments"
  /\ info \in mg.leaves
  /\ SplitDepth(info) < MaxSplit
  /\ LET h0 == HalfEdgeInfo(info, 0)
         h1 == HalfEdgeInfo(info, 1)
     IN  mg' = [pc |-> "segments",
                leaves |-> (mg.leaves \ {info}) \cup {h0, h1},
                all |-> mg.all \cup {h0, h1},
                last |-> <<info, h0, h1>>]
  /\ UNCHANGED <<asmVars, sp, sel, reg, rk>>

InitSegments ==
  /\ sp_seq = <<>>
  /\ spaces_size = 0
  /\ matrix_structure_reusable = FALSE
  /\ previous_mat = 0
  /\ vector_structure_reusable = FALSE
  /\ previous_rhs = 0
  /\ wf = NoWf
  /\ force_diagonal_blocks = FALSE
  /\ block_weights = NoBlockWeights
  /\ space_seq = <<0>>
  /\ mats = [m \in Mats |-> EmptyMat]
  /\ vecs = [r \in Vecs |-> 0]
  /\ last_call = NoCall
  /\ seq_at_set = <<>>
  /\ seq_diff_seen = FALSE
  /\ done_mat = -1
  /\ assembled = NotAssembled
  /\ sp = DofIdle
  /\ sel = SelIdle
  /\ reg = RegIdle
  /\ rk = RkIdle
  /\ \E mid_en \in {10, 11} : \E ori \in {0, 1} :
       mg = [pc |-> "segments",
             leaves |-> {NewEdgeInfo(mid_en, ori)},
             all |-> {NewEdgeInfo(mid_en, ori)},
             last |-> <<>>]

NextSegments == \E info \in mg.leaves : bisect_edge_info(info)

SpecSegments == InitSegments /\ [][NextSegments]_vars

(***************************************************************************)
(* update_constrained_nodes on one element with the edge infos it is       *)
(* given, and the calls it makes for its sons: the recursion is followed   *)
(* down one son after the other.                                           *)
(***************************************************************************)
\* Deepest nesting of split elements followed.
MaxNesting == 2

\* The sons of the split topologies: triangle, quad split 'horizontally',
\* 'vertically' and fully.
SplitsOf(mode) ==
  IF mode = "tri" THEN { <<1, 2, 3, 4>> }
  ELSE { <<1, 2, 0, 0>>, <<0, 0, 3, 4>>, <<1, 2, 3, 4>> }

ElementOfMode(mode, sons) ==
  IF mode = "tri" THEN SplitElement("tri", <<1, 2, 3>>, <<5, 6, 7>>, sons)
  ELSE SplitElement("quad", <<1, 2, 3, 4>>, <<5, 6, 7, 8>>, sons)

\* The ids the vertex nodes of an element can have, in the order e->vn.
Orders(n) == { vn \in [1..n -> 1..n] : \A a, b \in 1..n : a # b => vn[a] # vn[b] }

\* Whether the ids grow along each edge (line 449).
Directions(vn) == [x \in 1..Len(vn) |-> vn[x] < vn[(x % Len(vn)) + 1]]

\* One order of the ids for every pattern of directions the edges of an
\* element can have (the ids cannot grow along all edges, nor along none).
OrdersByDirections(n) ==
  { CHOOSE vn \in Orders(n) : Directions(vn) = d : d \in { Directions(vn) : vn \in Orders(n) } }

TriVertexIds == OrdersByDirections(3)

QuadVertexIds == OrdersByDirections(4)

VertexIds(mode) == IF mode = "tri" THEN TriVertexIds ELSE QuadVertexIds

\* Space::get_mid_edge_vertex_node gives a vertex node for edge i (it is
\* nullptr on the two edges a 2-way split of a quad leaves whole).
HasMidEdgeVertex(el, i) ==
  IF el.mode = "tri" THEN TRUE
  ELSE IF el.sons[3] = 0 THEN i \in {1, 3}
  ELSE IF el.sons[1] = 0 THEN i \in {0, 2}
  ELSE TRUE

\* Lines 433-453 on an element whose mid-edge vertex nodes of the edges in
\* constrained are constrained vertices.
CreateEdgeInfosAt(el, ei, constrained) ==
  [x \in 1..4 |->
     IF x <= Len(el.vn) /\ ~ei[x].present /\ HasMidEdgeVertex(el, x - 1)
                        /\ (x - 1) \in constrained
     THEN NewEdgeInfo(el.en[x],
                      IF el.vn[x] < el.vn[next_vert(el, x - 1) + 1] THEN 0 ELSE 1)
     ELSE ei[x]]

\* Lines 248-250 of get_boundary_assembly_list_internal: orientation and part
\* of a constrained edge node.
DecodePart(part) ==
  [ori |-> IF part < 0 THEN 1 ELSE 0, part |-> IF part < 0 THEN -part - 1 ELSE part]

\* Lines 412-427: the call on an active element (or one of order 0).
update_active_element(order) ==
  /\ mg.pc = "element"
  /\ LET el == ElementOfMode(mg.mode, <<0, 0, 0, 0>>)
         cons == IF order = 0 THEN NoConstraints
                 ELSE ApplyEdgeInfos(NoConstraints, el, mg.ei)
     IN  mg' = [pc |-> "applied", mode |-> mg.mode, depth |-> mg.depth,
                ei |-> mg.ei, order |-> order, edges |-> cons.edges,
                decoded |-> [k \in 1..Len(cons.edges) |-> DecodePart(cons.edges[k].part)]]
  /\ UNCHANGED <<asmVars, sp, sel, reg, rk>>

\* Lines 431-453 and 503-551: the call on a split element, up to the calls
\* for its sons.
update_split_element(sons, constrained, vn) ==
  /\ mg.pc = "element"
  /\ mg.depth < MaxNesting
  /\ LET el == [ElementOfMode(mg.mode, sons) EXCEPT !.vn = vn]
         eis == CreateEdgeInfosAt(el, mg.ei, constrained)
     IN  mg' = [pc |-> "recurring", mode |-> mg.mode, depth |-> mg.depth,
                ei |-> mg.ei, sons |-> sons, eis |-> eis,
                calls |-> SonCalls(el, eis)]
  /\ UNCHANGED <<asmVars, sp, sel, reg, rk>>

\* The k-th of the calls of lines 528-551 is entered.
enter_son(k) ==
  /\ mg.pc = "recurring"
  /\ k \in 1..Len(mg.calls)
  /\ mg' = [pc |-> "element", mode |-> mg.mode, depth |-> mg.depth + 1,
            ei |-> mg.calls[k][2]]
  /\ UNCHANGED <<asmVars, sp, sel, reg, rk>>

\* update_constraints calls update_constrained_nodes on a base element
\* without edge infos (line 560).
InitSons ==
  /\ sp_seq = <<>>
  /\ spaces_size = 0
  /\ matrix_structure_reusable = FALSE
  /\ previous_mat = 0
  /\ vector_structure_reusable = FALSE
  /\ previous_rhs = 0
  /\ wf = NoWf
  /\ force_diagonal_blocks = FALSE
  /\ block_weights = NoBlockWeights
  /\ space_seq = <<0>>
  /\ mats = [m \in Mats |-> EmptyMat]
  /\ vecs = [r \in Vecs |-> 0]
  /\ last_call = NoCall
  /\ seq_at_set = <<>>
  /\ seq_diff_seen = FALSE
  /\ done_mat = -1
  /\ assembled = NotAssembled
  /\ sp = DofIdle
  /\ sel = SelIdle
  /\ reg = RegIdle
  /\ rk = RkIdle
  /\ \E mode \in {"tri", "quad"} :
       mg = [pc |-> "element", mode |-> mode, depth |-> 0, ei |-> NoEdgeInfos]

NextSons ==
  \/ \E order \in {0, 1} : update_active_element(order)
  \/ \E sons \in SplitsOf(mg.mode) :
       \E constrained \in SUBSET { i \in 0..3 :
                                     HasMidEdgeVertex(ElementOfMode(mg.mode, sons), i) } :
         \E vn \in VertexIds(mg.mode) : update_split_element(sons, constrained, vn)
  \/ \E k \in 1..4 : enter_son(k)

SpecSons == InitSons /\ [][NextSons]_vars

(***************************************************************************)
(* Claims on the sparse-structure cache.                                   *)
(***************************************************************************)
\* C1: a prepare_sparse_structure call that directly follows a returned call
\* with the same non-null matrix (nothing in between: spaces and weak form
\* unchanged) takes the zero-only path: the only backend call on the matrix is
\* zero(), no free/prealloc/pre_add_ij/alloc, so no rebuild is counted.
C1_RepeatedCallOnlyZeroes ==
  (Quiet /\ last_call.quiet /\ last_call.mat # 0
     /\ last_call.prior_mat = last_call.mat)
    => (last_call.path = "zero" /\ last_call.mat_ops = <<"zero">>)

C1_Witness ==
  /\ last_call.quiet
  /\ last_call.mat # 0
  /\ last_call.prior_mat = last_call.mat
  /\ last_call.path = "zero"
  /\ mats[last_call.mat].status = "alloc"
  /\ mats[last_call.mat].pattern # {}

\* C2: a returned prepare_sparse_structure call with a non-null matrix
\* rebuilds the structure whenever a set_spaces call since the last returned
\* call with a matrix saw a changed sequence identifier, or the matrix differs
\* from the matrix of the immediately preceding returned call.
C2_RebuildAfterChange ==
  (Quiet /\ last_call.mat # 0
     /\ (last_call.seq_diff
           \/ (last_call.prior_mat # -1 /\ last_call.prior_mat # last_call.mat)))
    => last_call.path = "rebuild"

\* C3: the zero-only path is never taken on a matrix whose last rebuild did
\* not run through alloc().
C3_NoZeroOnPartialStructure ==
  last_call.path = "zero" => mats[last_call.mat].status = "alloc"

(***************************************************************************)
(* Claims on selectivity.                                                  *)
(***************************************************************************)
Blocks(w) == (0..(w.neq - 1)) \X (0..(w.neq - 1))

\* The only matrix forms of block (a, b) are volume forms with scaling factor 0.
OnlyZeroVolForms(w, a, b) ==
  /\ \E x \in 1..Len(w.mfvol) : w.mfvol[x].i = a /\ w.mfvol[x].j = b
  /\ \A x \in 1..Len(w.mfvol) :
       (w.mfvol[x].i = a /\ w.mfvol[x].j = b) => w.mfvol[x].scaling_factor = 0
  /\ \A x \in 1..Len(w.mfsurf) : ~(w.mfsurf[x].i = a /\ w.mfsurf[x].j = b)
  /\ \A x \in 1..Len(w.mfDG) : ~(w.mfDG[x].i = a /\ w.mfDG[x].j = b)

\* Block (a, b) is marked by the transposition of a symmetric volume form of
\* block (b, a) whose scaling factor is above the threshold.
MarkedByTransposition(w, a, b) ==
  \E x \in 1..Len(w.mfvol) :
    /\ w.mfvol[x].i = b /\ w.mfvol[x].j = a
    /\ w.mfvol[x].sym # 0
    /\ Abs(w.mfvol[x].scaling_factor) > HermesSqrtEpsilon

PositionsInBlock(pattern, a, b) ==
  { p \in pattern : SpaceOfDof(p[1]) = a /\ SpaceOfDof(p[2]) = b }

NoValueFromZeroScaledForm ==
  assembled.run => \A fx \in assembled.pairs : wf.mfvol[fx[1]].scaling_factor # 0

\* C4 (as amended): a matrix volume form with scaling factor 0 is selected in
\* no traversal state, and a block whose only matrix forms are such forms gets
\* no registered position, unless the block is a diagonal block forced by
\* force_diagonal_blocks or is marked by the transposition of a symmetric
\* volume form of the transposed block.
C4_ZeroScaledFormAddsNothing ==
  /\ NoValueFromZeroScaledForm
  /\ last_call.path = "rebuild" =>
       \A ab \in Blocks(wf) :
         (/\ OnlyZeroVolForms(wf, ab[1], ab[2])
          /\ ~(force_diagonal_blocks /\ ab[1] = ab[2])
          /\ ~MarkedByTransposition(wf, ab[1], ab[2]))
           => PositionsInBlock(mats[last_call.mat].pattern, ab[1], ab[2]) = {}

C4_Witness ==
  /\ last_call.path = "rebuild"
  /\ assembled.run
  /\ assembled.pairs # {}
  /\ mats[last_call.mat].pattern # {}
  /\ \E ab \in Blocks(wf) :
       /\ OnlyZeroVolForms(wf, ab[1], ab[2])
       /\ ~(force_diagonal_blocks /\ ab[1] = ab[2])
       /\ ~MarkedByTransposition(wf, ab[1], ab[2])

\* C4 (as claimed): a block whose only matrix form is a volume form with
\* scaling factor 0 gets no registered position at all.
C4_AsClaimed ==
  /\ NoValueFromZeroScaledForm
  /\ last_call.path = "rebuild" =>
       \A ab \in Blocks(wf) :
         OnlyZeroVolForms(wf, ab[1], ab[2])
           => PositionsInBlock(mats[last_call.mat].pattern, ab[1], ab[2]) = {}

(***************************************************************************)
(* Claims on the merge of baselists.                                       *)
(***************************************************************************)
Dofs(l) == { l[k].dof : k \in 1..Len(l) }

\* The DOF indices the edge node owns.
EdgeRange(edge) == IF edge.present THEN edge.dof..(edge.dof + edge.n - 1) ELSE {}

\* A baselist holds either every DOF of the edge node or none of that range
\* (what update_constrained_nodes passes: a list built by an earlier merge
\* with the same constraining edge holds all of them).
AllOrNone(l, edge) ==
  \/ Dofs(l) \cap EdgeRange(edge) = {}
  \/ EdgeRange(edge) \subseteq Dofs(l)

ArrayDofs(a, n) == { a[x].dof : x \in 0..(n - 1) }

StrictlyAscending(a, n) == \A x \in 0..(n - 2) : a[x].dof < a[x + 1].dof

NoDofTwice(a, n) ==
  \A x \in 0..(n - 1) : \A y \in 0..(n - 1) : (x # y) => a[x].dof # a[y].dof

\* C5 (as amended): for two baselists sorted ascending and duplicate-free and
\* an optional edge node with n own DOFs, such that each list holds either all
\* n DOFs of the edge node or none of them, the list produced (the block of the
\* edge node filled) is sorted ascending, holds no DOF index twice, holds
\* exactly the DOFs of the inputs and of the edge node, the fill stays inside
\* the array, and ncomponents is the number of entries emitted, at most
\* n1 + n2 + n.
C5_MergeSortedDuplicateFree ==
  (mg.pc = "done" /\ AllOrNone(mg.l1, mg.edge) /\ AllOrNone(mg.l2, mg.edge))
    => /\ StrictlyAscending(mg.out.baselist, mg.out.ncomponents)
       /\ NoDofTwice(mg.out.baselist, mg.out.ncomponents)
       /\ ~mg.out.overrun
       /\ ArrayDofs(mg.out.baselist, mg.out.ncomponents)
            = Dofs(mg.l1) \cup Dofs(mg.l2) \cup EdgeRange(mg.edge)
       /\ mg.out.ncomponents
            = Cardinality(Dofs(mg.l1) \cup Dofs(mg.l2) \cup EdgeRange(mg.edge))
       /\ mg.out.ncomponents <= Len(mg.l1) + Len(mg.l2) + mg.edge.n

\* A merge that coalesces a DOF of both lists and reserves the block of the
\* edge node between two emitted entries.
C5_Witness ==
  /\ mg.pc = "done"
  /\ AllOrNone(mg.l1, mg.edge) /\ AllOrNone(mg.l2, mg.edge)
  /\ mg.edge.present /\ mg.edge.n >= 2
  /\ mg.out.merged.edge_dofs > 0
  /\ mg.out.merged.edge_dofs + mg.edge.n < mg.out.ncomponents
  /\ mg.out.ncomponents < mg.out.merged.max_result
  /\ Dofs(mg.l1) \cap Dofs(mg.l2) # {}

\* C5 (as claimed): for any two sorted duplicate-free baselists and any edge
\* node the list produced is sorted ascending and holds no DOF index twice,
\* with ncomponents at most n1 + n2 + n.
C5_AsClaimed ==
  mg.pc = "done"
    => /\ StrictlyAscending(mg.out.baselist, mg.out.ncomponents)
       /\ NoDofTwice(mg.out.baselist, mg.out.ncomponents)
       /\ mg.out.ncomponents <= Len(mg.l1) + Len(mg.l2) + mg.edge.n

CoefIn(l, d) ==
  IF d \in Dofs(l) THEN (CHOOSE c \in { l[k].coef : k \in { u \in 1..Len(l) : l[u].dof = d } } : TRUE)
  ELSE 0

RECURSIVE SumCoefs(_)
SumCoefs(l) == IF l = <<>> THEN 0 ELSE l[1].coef + SumCoefs(Tail(l))

\* Sum of the coefficients of the first n slots of an array.
RECURSIVE SumArray(_, _)
SumArray(a, n) == IF n = 0 THEN 0 ELSE a[n - 1].coef + SumArray(a, n - 1)

\* C6: in the array merge_baselists returns, every DOF of the inputs occurs
\* once; its coefficient is half of its input coefficient if it is in one
\* list, half of the first plus half of the second if it is in both; and if
\* the coefficients of each input sum to at most 1, the coefficients taken
\* from the inputs sum to at most 1 in the result.
C6_MergedCoefficientsHalved ==
  mg.pc = "done"
    => LET r == mg.out.merged.result
           n == mg.out.merged.ncomponents
       IN  /\ \A d \in Dofs(mg.l1) \cup Dofs(mg.l2) :
                LET at == { x \in 0..(n - 1) : r[x].dof = d }
                IN  /\ Cardinality(at) = 1
                    /\ \A x \in at : 2 * r[x].coef = CoefIn(mg.l1, d) + CoefIn(mg.l2, d)
           /\ (SumCoefs(mg.l1) <= CoefOne /\ SumCoefs(mg.l2) <= CoefOne)
                => SumArray(r, n) <= CoefOne

\* A merge with a DOF in both lists (different coefficients), a DOF in one
\* list only, and input sums at most 1.
C6_Witness ==
  /\ mg.pc = "done"
  /\ \E d \in Dofs(mg.l1) \cap Dofs(mg.l2) : CoefIn(mg.l1, d) # CoefIn(mg.l2, d)
  /\ Dofs(mg.l1) \ Dofs(mg.l2) # {}
  /\ SumCoefs(mg.l1) <= CoefOne /\ SumCoefs(mg.l2) <= CoefOne
  /\ mg.out.merged.ncomponents < mg.out.merged.max_result

(***************************************************************************)
(* Claims on the assignment of the DOFs.                                   *)
(***************************************************************************)
ActiveElems(m) == { e \in 1..Len(m.elems) : m.elems[e].active }

\* The owners of DOFs: vertex and edge nodes with a real DOF index, and the
\* interiors of the active elements.
Owners(s) ==
  { <<"node", id>> : id \in { x \in Nodes(MeshOf(s)) : s.ndata[x].dof >= 0 } }
    \cup { <<"elem", e>> : e \in ActiveElems(MeshOf(s)) }

\* The DOF indices an owner holds: [dof, dof + n).
OwnedRange(s, o) ==
  IF o[1] = "node"
  THEN s.ndata[o[2]].dof..(s.ndata[o[2]].dof + s.ndata[o[2]].n - 1)
  ELSE s.edata[o[2]].bdof..(s.edata[o[2]].bdof + s.edata[o[2]].n - 1)

ConstrainedNodes(m) ==
  m.constrained \cup { en \in DOMAIN m.edges : ~EdgeIsUnconstrained(m, en) }

\* C7: after an assignment every DOF index held by a vertex node, an edge node
\* or an element interior lies in [0, ndof), the index ranges [dof, dof + n) of
\* two owners are disjoint, every node holds a sentinel or a non-negative
\* index, and every constrained node holds a negative sentinel.
C7_DofIndicesUniqueInRange ==
  sp.pc = "assigned"
    => /\ \A o \in Owners(sp) : OwnedRange(sp, o) \subseteq 0..(sp.ndof - 1)
       /\ \A o1 \in Owners(sp) : \A o2 \in Owners(sp) :
            (o1 # o2) => OwnedRange(sp, o1) \cap OwnedRange(sp, o2) = {}
       /\ \A id \in Nodes(MeshOf(sp)) :
            sp.ndata[id].dof >= 0
              \/ sp.ndata[id].dof \in {H2D_UNASSIGNED_DOF, H2D_CONSTRAINED_DOF}
       /\ \A id \in ConstrainedNodes(MeshOf(sp)) :
            sp.ndata[id].dof \in {H2D_UNASSIGNED_DOF, H2D_CONSTRAINED_DOF}

\* An assignment on the mesh with the hanging vertex, all orders at least 2,
\* some edge with an essential condition, owners of all three kinds.
C7_Witness ==
  /\ sp.pc = "assigned"
  /\ sp.mesh = 3
  /\ \A e \in ActiveElems(MeshOf(sp)) : sp.order[e] >= 2
  /\ \E en \in DOMAIN MeshOf(sp).edges : sp.ndata[en].dof = H2D_CONSTRAINED_DOF
  /\ sp.vertex_functions_count > 0
  /\ sp.edge_functions_count > 0
  /\ sp.bubble_functions_count > 0

\* The marker has an essential boundary condition.
HasEssentialBC(ebc, marker) ==
  /\ ebc.present
  /\ (ebc.HermesAnyBC # 0 \/ \E i \in 1..Len(ebc.markers) : ebc.markers[i] = marker)

\* The edge nodes of the active elements of order >= 1.
EdgesOfOrderedElems(s) ==
  UNION { { MeshOf(s).elems[e].en[i] : i \in 1..Len(MeshOf(s).elems[e].en) }
          : e \in { x \in ActiveElems(MeshOf(s)) : s.order[x] >= 1 } }

\* C8: the edge pass visits every edge node of the active elements of order
\* >= 1 once while it is unassigned, in a chain that starts at the next_dof
\* the vertex pass left.  An unconstrained edge node gets (edge order - 1)
\* DOFs starting at next_dof, and next_dof advances by that number, unless it
\* is a boundary edge whose marker has an essential boundary condition: then
\* it gets the constrained sentinel and next_dof stays.  A constrained edge
\* node gets no DOFs.
C8_EdgePass ==
  sp.pc = "edge"
    => LET log == sp.edge_log
           m == MeshOf(sp)
       IN  /\ { log[k].en : k \in 1..Len(log) } = EdgesOfOrderedElems(sp)
           /\ Len(log) = Cardinality(EdgesOfOrderedElems(sp))
           /\ \A k \in 1..Len(log) :
                log[k].before = IF k = 1 THEN sp.vertex_functions_count
                                ELSE log[k - 1].after
           /\ (log # <<>>) => log[Len(log)].after = sp.next_dof
           /\ \A k \in 1..Len(log) :
                LET en == log[k].en
                    nd == sp.ndata[en]
                IN  IF EdgeIsUnconstrained(m, en)
                    THEN IF m.edges[en].bnd
                              /\ HasEssentialBC(sp.ebc, get_user_marker(m.edges[en].marker))
                         THEN /\ nd.dof = H2D_CONSTRAINED_DOF
                              /\ log[k].after = log[k].before
                         ELSE /\ nd.dof = log[k].before
                              /\ nd.n = get_edge_order_internal(sp, en) - 1
                              /\ nd.n >= 0
                              /\ log[k].after = log[k].before + nd.n
                    ELSE /\ nd.dof = H2D_UNASSIGNED_DOF
                         /\ nd.n = -1
                         /\ log[k].after = log[k].before

\* An edge pass with an edge that gets two or more DOFs, an edge with an
\* essential condition and a constrained edge.
C8_Witness ==
  /\ sp.pc = "edge"
  /\ \E en \in DOMAIN MeshOf(sp).edges : sp.ndata[en].dof >= 0 /\ sp.ndata[en].n >= 2
  /\ \E en \in DOMAIN MeshOf(sp).edges :
       sp.ndata[en].dof = H2D_CONSTRAINED_DOF /\ MeshOf(sp).edges[en].bnd
  /\ \E k \in 1..Len(sp.edge_log) : sp.ndata[sp.edge_log[k].en].n = -1
  /\ sp.ebc.HermesAnyBC = 0

RECURSIVE SumEdgeDofs(_, _)
SumEdgeDofs(s, E) ==
  IF E = {} THEN 0
  ELSE LET en == CHOOSE x \in E : TRUE
       IN  s.ndata[en].n + SumEdgeDofs(s, E \ {en})

RECURSIVE SumBubbles(_, _)
SumBubbles(s, E) ==
  IF E = {} THEN 0
  ELSE LET e == CHOOSE x \in E : TRUE
       IN  s.edata[e].n + SumBubbles(s, E \ {e})

\* The split elements with the vertex node in the middle of an edge.
SplitElemsAt(m, v) ==
  { e \in 1..Len(m.elems) :
      /\ ~m.elems[e].active
      /\ \E i \in 0..(Len(m.elems[e].vn) - 1) : get_mid_edge_vertex_node(m, e, i) = v }

\* C9: on a mesh with a hanging vertex ndof is the sum of the three function
\* counts, which count the vertex nodes with a DOF, the DOFs of the edge nodes
\* with DOFs and the bubbles; no pass gives the hanging vertex a DOF, and the
\* constraint update gives it a baselist (if the split element has an order).
C9_HangingVertexOwnsNoDof ==
  (MeshOf(sp).constrained # {})
    => /\ \A v \in MeshOf(sp).constrained : sp.ndata[v].dof = H2D_UNASSIGNED_DOF
       /\ sp.pc = "assigned" =>
            /\ sp.ndof = sp.vertex_functions_count + sp.edge_functions_count
                           + sp.bubble_functions_count
            /\ sp.vertex_functions_count
                 = Cardinality({ v \in MeshOf(sp).vertices : sp.ndata[v].dof >= 0 })
            /\ sp.edge_functions_count
                 = SumEdgeDofs(sp, { en \in DOMAIN MeshOf(sp).edges : sp.ndata[en].dof >= 0 })
            /\ sp.bubble_functions_count = SumBubbles(sp, ActiveElems(MeshOf(sp)))
            /\ \A v \in MeshOf(sp).constrained :
                 (\A e \in SplitElemsAt(MeshOf(sp), v) : sp.order[e] # 0)
                   => \E b \in 1..Len(sp.cons.bl) :
                        /\ sp.cons.bl[b].vn = v
                        /\ sp.cons.bl[b].ncomponents >= 1

\* An assignment on the mesh with the hanging vertex whose baselist holds the
\* two endpoint vertices and a DOF of the constraining edge.
C9_Witness ==
  /\ sp.pc = "assigned"
  /\ MeshOf(sp).constrained # {}
  /\ \A e \in 1..Len(MeshOf(sp).elems) : sp.order[e] >= 2
  /\ sp.ndof > 0
  /\ \E b \in 1..Len(sp.cons.bl) :
       /\ sp.cons.bl[b].vn \in MeshOf(sp).constrained
       /\ sp.cons.bl[b].ncomponents >= 3
       /\ ~sp.cons.bl[b].overrun

\* C10: a second assign_dofs on the same space, mesh and boundary conditions
\* unchanged, leaves every node and element interior with the same DOF index
\* (or sentinel) and count, and the same ndof and function counts.
C10_SecondAssignmentIdentical ==
  (sp.pc = "assigned" /\ sp.runs >= 2) => Numbering(sp) = sp.prev

C10_Witness ==
  /\ sp.pc = "assigned"
  /\ sp.runs >= 2
  /\ sp.mesh = 3
  /\ \A e \in 1..Len(MeshOf(sp).elems) : sp.order[e] >= 2
  /\ sp.ebc.present /\ sp.ebc.markers # <<>>
  /\ sp.ndof > 0
  /\ Numbering(sp) = sp.prev

(***************************************************************************)
(* Claims on the constraints.                                              *)
(***************************************************************************)
\* The nodes of the active elements with an order.
NodesOfOrderedElems(s) ==
  UNION { { MeshOf(s).elems[e].vn[i] : i \in 1..Len(MeshOf(s).elems[e].vn) }
            \cup { MeshOf(s).elems[e].en[i] : i \in 1..Len(MeshOf(s).elems[e].en) }
          : e \in { x \in ActiveElems(MeshOf(s)) : s.order[x] >= 1 } }

\* C11: on a mesh without hanging nodes update_constraints creates no
\* baselist (merge_baselists is not called), synthesizes no edge info, passes
\* no edge info to a son and gives no edge node a base and a part; every node
\* of an active element with an order holds a DOF index or the sentinel of an
\* essential boundary condition.
C11_NoBaselistWithoutHangingNodes ==
  (sp.pc \in {"constraints", "assigned"} /\ MeshOf(sp).constrained = {})
    => /\ sp.cons.bl = <<>>
       /\ sp.cons.synth = 0
       /\ sp.cons.passed = 0
       /\ sp.cons.edges = <<>>
       /\ \A id \in NodesOfOrderedElems(sp) :
            sp.ndata[id].dof >= 0 \/ sp.ndata[id].dof = H2D_CONSTRAINED_DOF

\* The constraint update has walked a split element with an order, whose
\* mid-edge vertex nodes do not hang, down to its sons.
C11_Witness ==
  /\ sp.pc = "constraints"
  /\ MeshOf(sp).constrained = {}
  /\ \E e \in 1..Len(MeshOf(sp).elems) :
       /\ ~MeshOf(sp).elems[e].active
       /\ sp.order[e] > 0
       /\ \E i \in 0..3 : get_mid_edge_vertex_node(MeshOf(sp), e, i) # 0
       /\ \A k \in 1..2 : sp.order[MeshOf(sp).elems[e].sons[k]] > 0
  /\ \E id \in NodesOfOrderedElems(sp) : sp.ndata[id].dof = H2D_CONSTRAINED_DOF

\* The components of a stored baselist.
StoredComponents(b) == { b.baselist[x] : x \in 0..(b.ncomponents - 1) }

\* The vertices of the listed elements that hang and have a baselist.
ListedHangingVertices(s) ==
  { ev \in (1..Len(s.al)) \X (1..4) :
      /\ ev[2] <= Len(s.al[ev[1]])
      /\ is_constrained_vertex(MeshOf(s), MeshOf(s).elems[ev[1]].vn[ev[2]])
      /\ \E k \in 1..Len(s.cons.bl) : s.cons.bl[k].vn = MeshOf(s).elems[ev[1]].vn[ev[2]] }

\* C12 (as amended): a stored baselist may hold components with coefficient 0
\* (from the artificial baselist of an endpoint with an essential condition of
\* value 0, or from an edge function that vanishes at the midpoint); the
\* assembly list of a constrained vertex gets the components of its baselist
\* with a coefficient other than 0, each once, and no component with
\* coefficient 0.
C12_ZeroCoefficientNotListed ==
  (sp.pc = "assigned" /\ sp.al # <<>>)
    => \A ev \in ListedHangingVertices(sp) :
         LET l == sp.al[ev[1]][ev[2]]
             vn == MeshOf(sp).elems[ev[1]].vn[ev[2]]
             b == sp.cons.bl[CHOOSE k \in 1..Len(sp.cons.bl) : sp.cons.bl[k].vn = vn]
         IN  /\ \A x \in 1..Len(l) : l[x].coef # 0
             /\ { [dof |-> l[x].dof, coef |-> l[x].coef] : x \in 1..Len(l) }
                  = { c \in StoredComponents(b) : c.coef # 0 }
             /\ Len(l) = Cardinality({ x \in 0..(b.ncomponents - 1) : b.baselist[x].coef # 0 })

\* The assembly list of a hanging vertex has been read whose baselist stores a
\* component with coefficient 0 beside components that are passed on.
C12_Witness ==
  /\ sp.pc = "assigned"
  /\ sp.al # <<>>
  /\ \E ev \in ListedHangingVertices(sp) :
       LET vn == MeshOf(sp).elems[ev[1]].vn[ev[2]]
           b == sp.cons.bl[CHOOSE k \in 1..Len(sp.cons.bl) : sp.cons.bl[k].vn = vn]
       IN  /\ \E c \in StoredComponents(b) : c.coef = 0 /\ c.dof >= 0
           /\ Len(sp.al[ev[1]][ev[2]]) >= 2
           /\ Len(sp.al[ev[1]][ev[2]]) < b.ncomponents
           /\ ~b.overrun

\* C12 (as claimed): after update_constraints no component of a stored
\* baselist has coefficient 0.
C12_AsClaimed ==
  (sp.pc \in {"constraints", "assigned"})
    => \A k \in 1..Len(sp.cons.bl) :
         \A c \in StoredComponents(sp.cons.bl[k]) : c.coef # 0

(***************************************************************************)
(* Claims on the registration of the nonzero positions.                    *)
(***************************************************************************)
\* The entries of the assembly list of space k in a traversal state.
ListEntries(current_state, k) ==
  IF current_state.e[k + 1] = 0 THEN {}
  ELSE LET l == get_element_assembly_list(k, current_state.e[k + 1])
       IN  { l[x] : x \in 1..Len(l) }

\* C13: in a structure rebuild no position with a negative row or a negative
\* column is registered, by the element-local pass, by the pass over the
\* neighbours, or in the pattern the matrix gets, although the assembly lists
\* hold negative (constrained) DOFs.
C13_NoNegativePosition ==
  last_call.path \in {"rebuild", "failed"}
    => \A p \in last_call.local \cup last_call.dg \cup mats[last_call.mat].pattern :
         p[1] >= 0 /\ p[2] >= 0

\* A rebuild with two spaces and interface forms: both passes register
\* positions, and an assembly list of a row space of a marked block holds a
\* negative DOF.
C13_Witness ==
  /\ last_call.path = "rebuild"
  /\ spaces_size = 2
  /\ last_call.local # {}
  /\ last_call.dg # {}
  /\ \E x \in 1..Len(CurrentStates) : \E m \in 0..1 : \E n \in 0..1 :
       /\ get_blocks(wf, force_diagonal_blocks)[m][n]
       /\ CurrentStates[x].e[n + 1] # 0
       /\ \E d \in ListEntries(CurrentStates[x], m) : d < 0

\* The positions of block (m, n) of one traversal state: a row DOF of
\* component m and a column DOF of component n, both non-negative.
BlockPositions(current_state, m, n) ==
  { rc \in ListEntries(current_state, m) \X ListEntries(current_state, n) :
      rc[1] >= 0 /\ rc[2] >= 0 }

\* C14: in a structure rebuild the element-local pass registers position
\* (row DOF of component m, column DOF of component n) of a traversal state
\* exactly if blocks[m][n] is true, the state has an element for m and for n,
\* and both DOFs are non-negative; it registers no position in a block whose
\* entry is false.
C14_LocalPassHonoursBlocks ==
  last_call.path = "rebuild"
    => LET blocks == get_blocks(wf, force_diagonal_blocks)
       IN  /\ last_call.local =
                UNION { UNION { IF blocks[mn[1]][mn[2]]
                                THEN BlockPositions(CurrentStates[x], mn[1], mn[2])
                                ELSE {}
                                : mn \in (0..(spaces_size - 1)) \X (0..(spaces_size - 1)) }
                        : x \in 1..Len(CurrentStates) }
           /\ \A p \in last_call.local : blocks[SpaceOfDof(p[1])][SpaceOfDof(p[2])]

\* A rebuild with two spaces, a marked and an unmarked block whose elements
\* and non-negative DOFs are there, and a state without an element for one
\* component.
C14_Witness ==
  /\ last_call.path = "rebuild"
  /\ spaces_size = 2
  /\ last_call.local # {}
  /\ \E mn \in (0..1) \X (0..1) : \E x \in 1..Len(CurrentStates) :
       /\ ~get_blocks(wf, force_diagonal_blocks)[mn[1]][mn[2]]
       /\ BlockPositions(CurrentStates[x], mn[1], mn[2]) # {}
  /\ \E mn \in (0..1) \X (0..1) : \E x \in 1..Len(CurrentStates) :
       /\ get_blocks(wf, force_diagonal_blocks)[mn[1]][mn[2]]
       /\ CurrentStates[x].e[mn[2] + 1] = 0

(***************************************************************************)
(* Claims on the vector of the cache.                                      *)
(***************************************************************************)
\* C15: a prepare_sparse_structure call that returns, with a non-null
\* vector: if the vector is the one of the previous returned call and the
\* vector cache is reusable, the vector is allocated to ndof if its size is 0
\* and zeroed in place otherwise, and nothing else is done to it; if it is
\* another vector or the cache was invalidated, it is allocated with
\* alloc(ndof).  This holds whichever path the matrix takes.
C15_VectorCachedBySize ==
  (Quiet /\ last_call.rhs # 0)
    => IF last_call.rhs_reusable /\ last_call.rhs = last_call.prior_rhs
       THEN IF last_call.rhs_size = 0
            THEN last_call.rhs_ops = <<"alloc">> /\ vecs[last_call.rhs] = get_num_dofs
            ELSE last_call.rhs_ops = <<"zero">> /\ vecs[last_call.rhs] = last_call.rhs_size
       ELSE last_call.rhs_ops = <<"alloc">> /\ vecs[last_call.rhs] = get_num_dofs

\* The matrix is rebuilt (another matrix than in the previous call) while the
\* vector, the one of the previous call, is zeroed in place.
C15_Witness ==
  /\ last_call.path = "rebuild"
  /\ last_call.prior_mat \in Mats
  /\ last_call.rhs # 0
  /\ last_call.rhs = last_call.prior_rhs
  /\ last_call.rhs_reusable
  /\ last_call.rhs_size # 0
  /\ last_call.rhs_ops = <<"zero">>

(***************************************************************************)
(* Claims on form_to_be_assembled.                                         *)
(***************************************************************************)
ElementsPresentIJ == sel.state.e[sel.form.i + 1] # 0 /\ sel.state.e[sel.form.j + 1] # 0

BlockWeight == get_A(block_weights, sel.form.i \div RK_original_spaces_count,
                     sel.form.j \div RK_original_spaces_count)

\* The base predicate of a matrix form as the claims word it: elements of both
\* components, scaling factor and (if a table is supplied) block weight of a
\* magnitude that exceeds the threshold.
MatrixBaseAsClaimed ==
  /\ ElementsPresentIJ
  /\ Abs(sel.form.scaling_factor) > HermesSqrtEpsilon
  /\ (block_weights # NoBlockWeights) => Abs(BlockWeight) > HermesSqrtEpsilon

\* The base predicate of a vector form as the claims word it.
VectorBaseAsClaimed ==
  /\ sel.state.e[sel.form.i + 1] # 0
  /\ Abs(sel.form.scaling_factor) > HermesSqrtEpsilon

\* C16: form_to_be_assembled of a matrix interface form (the base predicate of
\* the matrix forms alone) is true exactly if the state has an element for i
\* and for j, the magnitude of the scaling factor exceeds the threshold and,
\* with a block-weight table, the magnitude of the block weight exceeds it.
C16_MatrixBasePredicate ==
  (sel.pc = "done" /\ sel.kind = "mfDG") => (sel.result <=> MatrixBaseAsClaimed)

\* Forms of the six kinds in marker set: the marker is a member of
\* areas_internal.
MarkerIn(marker) ==
  \E ss \in 1..Len(sel.form.areas_internal) : sel.form.areas_internal[ss] = marker

\* C17: a matrix volume form is assembled exactly if it passes the base
\* predicate of the matrix forms and (assemble-everywhere is set or the marker
\* of the representative element is in areas_internal); a vector volume form
\* exactly if the element of component i is there, the magnitude of the
\* scaling factor is above the threshold and (assemble-everywhere or marker
\* membership), whatever the block-weight table.
C17_VolumeForms ==
  /\ (sel.pc = "done" /\ sel.kind = "mfvol")
       => (sel.result <=>
             (form_to_be_assembled_MatrixForm(sel.form, sel.state)
                /\ (sel.form.assembleEverywhere \/ MarkerIn(sel.state.marker))))
  /\ (sel.pc = "done" /\ sel.kind = "vfvol")
       => (sel.result <=>
             (VectorBaseAsClaimed
                /\ (sel.form.assembleEverywhere \/ MarkerIn(sel.state.marker))))

\* C18: a matrix or vector surface form is not assembled on an edge with
\* marker 0, whatever its assemble-everywhere flag; on an edge with another
\* marker, a surface form that passes its base predicate is assembled exactly
\* if assemble-everywhere is set or the marker of the edge is in
\* areas_internal.
C18_SurfaceForms ==
  (sel.pc = "done" /\ sel.kind \in {"mfsurf", "vfsurf"})
    => LET base == IF sel.kind = "mfsurf"
                   THEN form_to_be_assembled_MatrixForm(sel.form, sel.state)
                   ELSE form_to_be_assembled_VectorForm(sel.form, sel.state)
       IN  /\ (sel.state.edge_marker = 0) => ~sel.result
           /\ (sel.state.edge_marker # 0 /\ base)
                => (sel.result <=>
                      (sel.form.assembleEverywhere \/ MarkerIn(sel.state.edge_marker)))
           /\ ~base => ~sel.result

\* A vector surface form with assemble-everywhere set that passes its base
\* predicate has been refused on an edge with marker 0.
C18_Witness ==
  /\ sel.pc = "done"
  /\ sel.kind = "vfsurf"
  /\ sel.state.edge_marker = 0
  /\ sel.form.assembleEverywhere
  /\ form_to_be_assembled_VectorForm(sel.form, sel.state)
  /\ ~sel.result

(***************************************************************************)
(* Claims on the form registry.                                            *)
(***************************************************************************)
RegLists == <<reg.mfvol, reg.mfsurf, reg.mfDG, reg.vfvol, reg.vfsurf, reg.vfDG, reg.forms>>

MatrixLists == reg.mfvol \o reg.mfsurf \o reg.mfDG

VectorLists == reg.vfvol \o reg.vfsurf \o reg.vfDG

IsMatrixOp(op) == op \in {"add_matrix_form", "add_matrix_form_surf", "add_matrix_form_DG"}

IndexOutOfRange(op, form) ==
  form.i >= reg.neq \/ (IsMatrixOp(op) /\ form.j >= reg.neq)

\* Every registered form has i < neq, and j < neq if it is a matrix form.
RegisteredIndicesValid ==
  (reg.pc = "reg")
    => /\ \A k \in 1..Len(MatrixLists) :
            MatrixLists[k].i < reg.neq /\ MatrixLists[k].j < reg.neq
       /\ \A k \in 1..Len(VectorLists) : VectorLists[k].i < reg.neq
       /\ Len(reg.forms) = Len(MatrixLists) + Len(VectorLists)

IsAddOp(op) ==
  op \in {"add_matrix_form", "add_matrix_form_surf", "add_matrix_form_DG",
          "add_vector_form", "add_vector_form_surf", "add_vector_form_DG"}

\* The form the last entry of the list of all forms refers to.
LastRegistered(w) == w[w.forms[Len(w.forms)][1]][w.forms[Len(w.forms)][2]]

\* A step of an add operation: one that throws changes no list and throws
\* "Invalid equation number." exactly for an index out of range; one that
\* returns has appended a form whose indices are in range.
InvalidIndexStep ==
  IsAddOp(reg'.last.op) =>
    /\ reg'.last.threw
         => /\ RegLists' = RegLists
            /\ (reg'.last.error = "Invalid equation number.")
                 <=> IndexOutOfRange(reg'.last.op, reg'.last.form)
    /\ ~reg'.last.threw
         => /\ Len(reg'.forms) = Len(reg.forms) + 1
            /\ ~IndexOutOfRange(reg'.last.op, LastRegistered(reg'))

\* C19: each of the six add operations given a form with i >= neq (or, for a
\* matrix form, j >= neq) throws the configuration error and leaves every list
\* of the registry unchanged; hence every registered form has i < neq (and
\* j < neq), whatever setSymFlag and delete_all do in between.
C19_InvalidIndexRejected == []RegisteredIndicesValid /\ [][InvalidIndexStep]_reg

\* A matrix surface form with j out of range has been rejected by a registry
\* that already holds a form.
C19_Witness ==
  /\ reg.pc = "reg"
  /\ reg.last.threw
  /\ reg.last.op = "add_matrix_form_surf"
  /\ reg.last.form.i < reg.neq
  /\ reg.last.form.j >= reg.neq
  /\ Len(reg.forms) > 0

SymValid(form) ==
  /\ form.sym \in {-1, 0, 1}
  /\ ~(form.sym = -1 /\ form.i = form.j)

\* C20 as claimed: every matrix form the registry has accepted through
\* add_matrix_form or add_matrix_form_surf has sym in {-1, 0, 1} and is not
\* antisymmetric on a diagonal block.
C20_AsClaimed ==
  (reg.pc = "reg")
    => \A k \in 1..Len(reg.mfvol \o reg.mfsurf) : SymValid((reg.mfvol \o reg.mfsurf)[k])

\* A step of add_matrix_form or add_matrix_form_surf: a form with indices in
\* range is rejected exactly if it is a volume form whose flag is not valid,
\* with the message of the test that fails, and a rejected form changes no
\* list; the form a returning call has appended has a valid flag.
SymValidatedStep ==
  reg'.last.op \in {"add_matrix_form", "add_matrix_form_surf"} =>
    /\ reg'.last.threw
         => /\ RegLists' = RegLists
            /\ \/ IndexOutOfRange(reg'.last.op, reg'.last.form)
               \/ /\ reg'.last.op = "add_matrix_form"
                  /\ ~SymValid(reg'.last.form)
                  /\ reg'.last.error =
                       IF reg'.last.form.sym \in {-1, 0, 1}
                       THEN "Only off-diagonal forms can be antisymmetric."
                       ELSE "\"sym\" must be -1, 0 or 1."
    /\ ~reg'.last.threw
         => /\ Len(reg'.forms) = Len(reg.forms) + 1
            /\ SymValid(LastRegistered(reg'))

\* A step of setSymFlag: the form stays registered with the flag given,
\* valid or not, and nothing is thrown.
SetSymFlagStep ==
  reg'.last.op = "setSymFlag" =>
    /\ ~reg'.last.threw
    /\ reg'.forms = reg.forms
    /\ Len(reg'.mfvol) = Len(reg.mfvol)
    /\ \A k \in 1..Len(reg.mfvol) :
         /\ reg'.mfvol[k].i = reg.mfvol[k].i
         /\ reg'.mfvol[k].j = reg.mfvol[k].j

\* C20: a form is validated when it is registered: add_matrix_form rejects a
\* volume form whose sym is not in {-1, 0, 1} or which is antisymmetric on a
\* diagonal block, adding it to no list, and a form it accepts has a valid
\* flag at that moment; add_matrix_form_surf tests the indices only (the flag
\* of a surface form is HERMES_NONSYM as constructed).  setSymFlag on a
\* registered volume form is not validated, so the flag of a registered form
\* need not stay valid.
C20_SymValidatedAtRegistration == [][SymValidatedStep /\ SetSymFlagStep]_reg

\* add_matrix_form has rejected an antisymmetric form of a diagonal block,
\* after it had accepted an antisymmetric form of an off-diagonal block.
C20_Witness ==
  /\ reg.pc = "reg"
  /\ reg.last.threw
  /\ reg.last.op = "add_matrix_form"
  /\ reg.last.error = "Only off-diagonal forms can be antisymmetric."
  /\ reg.last.form.i < reg.neq /\ reg.last.form.j < reg.neq
  /\ \E k \in 1..Len(reg.mfvol) :
       reg.mfvol[k].sym = -1 /\ reg.mfvol[k].i # reg.mfvol[k].j

(***************************************************************************)
(* Claims on the resolution of the area markers.                           *)
(***************************************************************************)
ConversionOf(surface) ==
  IF surface THEN BoundaryMarkersConversion ELSE ElementMarkersConversion

HasWildcard(form) == \E k \in 1..Len(form.areas) : form.areas[k] = HERMES_ANY

\* The internal markers of the area names of the form, in order.
ResolvedMarkers(form, surface) ==
  [k \in 1..Len(form.areas) |-> get_internal_marker(ConversionOf(surface), form.areas[k]).marker]

\* Some area name of the form is not the wildcard and not in the table.
HasUnresolvable(form, surface) ==
  \E k \in 1..Len(form.areas) :
    /\ form.areas[k] # HERMES_ANY
    /\ ~get_internal_marker(ConversionOf(surface), form.areas[k]).valid

\* Some area name of the form that no wildcard precedes is not in the table.
HasUnresolvableBeforeWildcard(form, surface) ==
  \E k \in 1..Len(form.areas) :
    /\ \A h \in 1..k : form.areas[h] # HERMES_ANY
    /\ ~get_internal_marker(ConversionOf(surface), form.areas[k]).valid

\* The forms of the lists processFormMarkers processes, each with the
\* surface argument of its list.
ProcessedForms ==
  UNION { { <<reg[ProcessedLists[k][1]][n], ProcessedLists[k][2]>> :
              n \in 1..Len(reg[ProcessedLists[k][1]]) } : k \in 1..Len(ProcessedLists) }

AfterProcessFormMarkers == reg.pc = "markers" /\ reg.last.op = "processFormMarkers"

\* After a processFormMarkers that returned, a form without the wildcard has
\* the internal markers of its names in order, from the table of its kind.
ResolvedInOrder ==
  (AfterProcessFormMarkers /\ ~reg.last.threw)
    => \A f \in ProcessedForms :
         ~HasWildcard(f[1]) => f[1].areas_internal = ResolvedMarkers(f[1], f[2])

\* C21 as claimed: after a successful processFormMarkers the forms without the
\* wildcard have their markers resolved in order, and processFormMarkers
\* throws if any area name of any processed form is not in the table.
C21_AsClaimed ==
  /\ ResolvedInOrder
  /\ (AfterProcessFormMarkers /\ \E f \in ProcessedForms : HasUnresolvable(f[1], f[2]))
       => reg.last.threw

\* C21: after a successful processFormMarkers the forms without the wildcard
\* have their markers resolved in order, whatever an earlier run left, and
\* processFormMarkers throws exactly if, in some processed form, an area name
\* that no wildcard precedes is not in the table; names after a wildcard are
\* not looked up, and the form of the wildcard has no internal marker.
C21_MarkersResolved ==
  /\ ResolvedInOrder
  /\ AfterProcessFormMarkers
       => (reg.last.threw
             <=> \E f \in ProcessedForms : HasUnresolvableBeforeWildcard(f[1], f[2]))
  /\ (AfterProcessFormMarkers /\ ~reg.last.threw)
       => \A f \in ProcessedForms :
            HasWildcard(f[1]) => (f[1].areas_internal = <<>> /\ f[1].assembleEverywhere)

\* A run that returned, on forms an earlier run had resolved: the volume form
\* has two element markers in the order of its names and the surface form two
\* boundary markers.
C21_Witness ==
  /\ AfterProcessFormMarkers
  /\ ~reg.last.threw
  /\ reg.last.stale
  /\ reg.mfvol[1].areas = <<"b", "a">>
  /\ reg.mfvol[1].areas_internal = <<2, 1>>
  /\ reg.mfsurf[1].areas = <<"a", "c">>
  /\ reg.mfsurf[1].areas_internal = <<2, 3>>

(***************************************************************************)
(* Claims on get_blocks.                                                   *)
(***************************************************************************)
MatrixFormsOf(w) == w.mfvol \o w.mfsurf \o w.mfDG

AboveThreshold(form) == Abs(form.scaling_factor) > HermesSqrtEpsilon

\* Some registered matrix form above the threshold has (i, j) = (a, b).
MarkedDirectly(w, a, b) ==
  \E x \in 1..Len(MatrixFormsOf(w)) :
    /\ AboveThreshold(MatrixFormsOf(w)[x])
    /\ MatrixFormsOf(w)[x].i = a /\ MatrixFormsOf(w)[x].j = b

\* C22 as claimed: entry (a, b) is true exactly if force_diagonal and a = b,
\* or a matrix form of any kind above the threshold has (i, j) = (a, b), or
\* such a form that is symmetric (sym = 1) has (j, i) = (a, b).
C22_AsClaimed ==
  (reg.pc = "blocks_done")
    => \A a \in 0..(reg.w.neq - 1) : \A b \in 0..(reg.w.neq - 1) :
         reg.blocks[a][b]
           <=> \/ (reg.force_diagonal /\ a = b)
               \/ MarkedDirectly(reg.w, a, b)
               \/ \E x \in 1..Len(MatrixFormsOf(reg.w)) :
                    /\ AboveThreshold(MatrixFormsOf(reg.w)[x])
                    /\ MatrixFormsOf(reg.w)[x].sym = 1
                    /\ MatrixFormsOf(reg.w)[x].j = a /\ MatrixFormsOf(reg.w)[x].i = b

\* C22: get_blocks returns an neq x neq matrix whose entry (a, b) is true
\* exactly if force_diagonal and a = b, or a matrix form of any kind above the
\* threshold has (i, j) = (a, b), or a volume form above the threshold whose
\* symmetry flag is not 0 (symmetric or antisymmetric) has (j, i) = (a, b);
\* the flag of a surface or interface form marks nothing.
C22_BlocksOfForms ==
  (reg.pc = "blocks_done")
    => /\ DOMAIN reg.blocks = 0..(reg.w.neq - 1)
       /\ \A a \in 0..(reg.w.neq - 1) : \A b \in 0..(reg.w.neq - 1) :
            reg.blocks[a][b]
              <=> \/ (reg.force_diagonal /\ a = b)
                  \/ MarkedDirectly(reg.w, a, b)
                  \/ \E x \in 1..Len(reg.w.mfvol) :
                       /\ AboveThreshold(reg.w.mfvol[x])
                       /\ reg.w.mfvol[x].sym \in {-1, 1}
                       /\ reg.w.mfvol[x].j = a /\ reg.w.mfvol[x].i = b

\* get_blocks has marked block (1, 0) for nothing but an antisymmetric volume
\* form of block (0, 1), beside a surface form below the threshold.
C22_Witness ==
  /\ reg.pc = "blocks_done"
  /\ ~reg.force_diagonal
  /\ reg.w.mfvol = << MF(0, 1, -1, 3, TRUE, <<>>) >>
  /\ reg.w.mfsurf = << MF(1, 0, 0, 2, TRUE, <<>>) >>
  /\ reg.w.mfDG = <<>>
  /\ reg.blocks[1][0]
  /\ ~reg.blocks[1][1]

(***************************************************************************)
(* Claims on the vertex pass.                                              *)
(***************************************************************************)
\* The vertex nodes of the active elements of order >= 1.
VisitedVertices(s) ==
  UNION { { MeshOf(s).elems[e].vn[i] : i \in 1..Len(MeshOf(s).elems[e].vn) }
          : e \in { x \in ActiveElems(MeshOf(s)) : s.order[x] >= 1 } }

\* Those of them that are not hanging and have no DOF yet.
EligibleVertices(s) ==
  { v \in VisitedVertices(s) :
      v \notin MeshOf(s).constrained /\ s.ndata[v].dof = H2D_UNASSIGNED_DOF }

\* A step of the vertex pass: the eligible vertex nodes with count 0 get the
\* constrained sentinel, the others the DOF indices from next_dof on, one
\* each, next_dof grows by their number, and no other node changes.
VertexPassStep ==
  (sp.pc = "reset" /\ sp'.pc = "vertex")
    => LET free == { v \in EligibleVertices(sp) : sp.ndata[v].n # 0 }
       IN  /\ \A v \in EligibleVertices(sp) \ free :
                sp'.ndata[v].dof = H2D_CONSTRAINED_DOF
           /\ { sp'.ndata[v].dof : v \in free }
                = sp.next_dof .. (sp.next_dof + Cardinality(free) - 1)
           /\ sp'.next_dof = sp.next_dof + Cardinality(free)
           /\ \A id \in Nodes(MeshOf(sp)) \ EligibleVertices(sp) :
                sp'.ndata[id] = sp.ndata[id]

\* C23: in the vertex pass every vertex node of an active element of order
\* >= 1 that is not hanging and has no DOF gets the next free DOF index
\* (next_dof then grows by 1), or the constrained sentinel with next_dof
\* unchanged if its count is 0; hanging vertex nodes, assigned ones and those
\* of elements of order 0 only are left untouched.
C23_VertexPass == [][VertexPassStep]_sp

\* After a vertex pass on the mesh with the hanging vertex: a vertex node has
\* a DOF, one has the sentinel, and a vertex node that is not hanging has
\* neither because its elements have order 0.
C23_Witness ==
  /\ sp.pc = "vertex"
  /\ MeshOf(sp).constrained # {}
  /\ \E v \in MeshOf(sp).vertices : sp.ndata[v].dof >= 0
  /\ \E v \in MeshOf(sp).vertices : sp.ndata[v].dof = H2D_CONSTRAINED_DOF
  /\ \E v \in MeshOf(sp).vertices \ MeshOf(sp).constrained :
       /\ sp.ndata[v].dof = H2D_UNASSIGNED_DOF
       /\ v \notin VisitedVertices(sp)

(***************************************************************************)
(* Claims on the construction of the space.                                *)
(***************************************************************************)
\* C24: the construction of an H1 space fails (throws) exactly if the initial
\* order is below 1, and a failed construction has set no element order and
\* assigned no DOF.
C24_LowOrderRejected ==
  /\ (sp.pc = "failed")
       => /\ sp.p_init < 1
          /\ \A e \in DOMAIN sp.order : sp.order[e] = -1
          /\ \A id \in DOMAIN sp.ndata : sp.ndata[id].dof = H2D_UNASSIGNED_DOF
          /\ sp.next_dof = 0 /\ sp.ndof = 0 /\ sp.runs = 0
  /\ (sp.pc \in {"created", "assigned"} /\ sp.runs <= 1 /\ "p_init" \in DOMAIN sp)
       => /\ sp.p_init >= 1
          /\ \A e \in DOMAIN sp.order : sp.order[e] = sp.p_init

\* A construction with order 0 has failed on the mesh with the hanging vertex.
C24_Witness ==
  /\ sp.pc = "failed"
  /\ sp.p_init = 0
  /\ sp.mesh = 3
  /\ \A e \in DOMAIN sp.order : sp.order[e] = -1

(***************************************************************************)
(* Claims on the multistage weak formulation.                              *)
(***************************************************************************)
\* The clones of the base form in a list of the right weak form: those with
\* its integrand and its own external functions.
ClonesOf(list, form) ==
  { k \in 1..Len(list) :
      list[k].fn = form.fn /\ SubSeq(list[k].ext, 1, Len(form.ext)) = form.ext }

\* The list holds, for the base form, exactly one clone for each block (i, j)
\* of the tableau, scaled by -time_step * A[i][j], with offset i and the
\* stage-time function of row i as the one additional external function.
OneMatrixClonePerBlock(list, form) ==
  /\ Cardinality(ClonesOf(list, form)) = rk.bt.size * rk.bt.size
  /\ \A i \in 0..(rk.bt.size - 1) : \A j \in 0..(rk.bt.size - 1) :
       \E k \in ClonesOf(list, form) :
         /\ list[k].i = i /\ list[k].j = j
         /\ list[k].scaling_factor = (0 - rk.time_step) * rk.bt.A[i + 1][j + 1]
         /\ list[k].u_ext_offset = i
         /\ list[k].sym = form.sym
         /\ list[k].ext = Append(form.ext,
              [stage |-> i, value |-> rk.current_time + rk.bt.C[i + 1] * rk.time_step])

\* The list holds, for the base form, exactly one clone for each stage i, with
\* offset i and the stage-time function of row i.
OneVectorClonePerStage(list, form) ==
  /\ Cardinality(ClonesOf(list, form)) = rk.bt.size
  /\ \A i \in 0..(rk.bt.size - 1) :
       \E k \in ClonesOf(list, form) :
         /\ list[k].i = i
         /\ list[k].u_ext_offset = i
         /\ list[k].ext = Append(form.ext,
              [stage |-> i, value |-> rk.current_time + rk.bt.C[i + 1] * rk.time_step])

\* C25: for a base weak form of one equation and a tableau of s stages,
\* create_stage_wf puts exactly one mass-matrix form (block (0, 0), scaling 1)
\* into the left weak form, and into the right one s*s clones of every base
\* matrix volume and surface form, one per block (i, j), scaled by
\* -time_step * A[i][j] with offset i, and s clones of every base vector
\* volume and surface form, one per stage i with offset i; every clone has the
\* stage-time function of its row as an additional external function, and
\* nothing else is in the lists.
C25_StageWeakForms ==
  (rk.pc = "stage_done")
    => LET l == rk.stage_wf.left
           r == rk.stage_wf.right
           b == rk.base_wf
           s == rk.bt.size
       IN  /\ Len(l.mfvol) = 1 /\ Len(l.mfsurf) = 0 /\ Len(l.vfvol) = 0 /\ Len(l.vfsurf) = 0
           /\ l.mfvol[1].i = 0 /\ l.mfvol[1].j = 0 /\ l.mfvol[1].scaling_factor = 1
           /\ r.neq = s
           /\ Len(r.mfvol) = s * s * Len(b.mfvol)
           /\ Len(r.mfsurf) = s * s * Len(b.mfsurf)
           /\ Len(r.vfvol) = s * Len(b.vfvol)
           /\ Len(r.vfsurf) = s * Len(b.vfsurf)
           /\ \A m \in 1..Len(b.mfvol) : OneMatrixClonePerBlock(r.mfvol, b.mfvol[m])
           /\ \A m \in 1..Len(b.mfsurf) : OneMatrixClonePerBlock(r.mfsurf, b.mfsurf[m])
           /\ \A m \in 1..Len(b.vfvol) : OneVectorClonePerStage(r.vfvol, b.vfvol[m])
           /\ \A m \in 1..Len(b.vfsurf) : OneVectorClonePerStage(r.vfsurf, b.vfsurf[m])
           /\ \A k \in 1..Len(r.mfvol) :
                ~MatrixIndexInvalid(r.mfvol[k], r.neq) /\ ~SymInvalid(r.mfvol[k])

\* The stage weak forms of a tableau of two stages with a lower-triangular A
\* and a base weak form with two matrix volume forms and a form of each
\* other kind.
C25_Witness ==
  /\ rk.pc = "stage_done"
  /\ rk.bt.size = 2
  /\ rk.bt.A = << <<0, 0>>, <<1, 0>> >>
  /\ rk.time_step = 2
  /\ Len(rk.base_wf.mfvol) = 2
  /\ Len(rk.base_wf.mfsurf) = 1 /\ Len(rk.base_wf.vfvol) = 1 /\ Len(rk.base_wf.vfsurf) = 1
  /\ Len(rk.stage_wf.right.mfvol) = 8
  /\ \E k \in 1..8 : /\ rk.stage_wf.right.mfvol[k].i = 1
                     /\ rk.stage_wf.right.mfvol[k].j = 0
                     /\ rk.stage_wf.right.mfvol[k].scaling_factor = -2


(***************************************************************************)
(* Claims about rk_time_step.                                              *)
(***************************************************************************)
\* The call has returned, with a value or with a fatal error.
RkReturned == rk.pc = "returned"

\* The call passed its checks and the linear solver never failed.
RkRan == RkReturned /\ rk.result # "error"

\* The residual norm of the last pass exceeded the allowed maximum.
ResidualExceeded ==
  /\ rk.residuals # <<>>
  /\ rk.residuals[Len(rk.residuals)] > rk.newton_max_allowed_residual_norm

\* The passes went beyond newton_max_iter and no pass within the budget
\* had a residual norm below the tolerance.
BudgetExhausted ==
  /\ Len(rk.residuals) > rk.newton_max_iter
  /\ \A k \in 1..rk.newton_max_iter : rk.residuals[k] >= rk.newton_tol

\* A pass whose number does not exceed newton_max_iter had a residual norm
\* below the tolerance, and no pass exceeded the allowed maximum.
ConvergedWithinBudget ==
  /\ \E k \in 1..Len(rk.residuals) :
       k <= rk.newton_max_iter /\ rk.residuals[k] < rk.newton_tol
  /\ \A k \in 1..Len(rk.residuals) :
       rk.residuals[k] <= rk.newton_max_allowed_residual_norm

\* C26: when the residual norm of a pass exceeds the allowed maximum the call
\* returns false without solving in that pass, and when the iteration budget
\* is used up without convergence the call returns false; in both cases the
\* outcome is a return value, not a fatal error, and no new solution is
\* written.
C26_FailureReturnsFalse ==
  /\ (RkReturned /\ ResidualExceeded) =>
       /\ rk.result = "false"
       /\ rk.solves = Len(rk.residuals) - 1
       /\ ~rk.sln_time_new /\ ~rk.error_fn_written
  /\ (RkRan /\ BudgetExhausted) =>
       /\ rk.result = "false"
       /\ ~rk.sln_time_new /\ ~rk.error_fn_written

C26_Witness ==
  /\ RkRan /\ BudgetExhausted /\ ~ResidualExceeded
  /\ rk.newton_max_iter = 2 /\ rk.solves = 2 /\ rk.result = "false"

\* C27: whenever the residual norm drops below the tolerance at a pass whose
\* number does not exceed newton_max_iter, and the allowed maximum is never
\* exceeded, the call returns true and writes the new solution.
C27_AsClaimed ==
  (RkRan /\ ConvergedWithinBudget) => (rk.result = "true" /\ rk.sln_time_new)

\* C27: the run of the failing input: newton_max_iter = 3, the third pass
\* has a residual norm below the tolerance, and the call returns false.
C27_ConvergedAtLastIteration ==
  /\ RkRan /\ ~rk.is_linear /\ rk.newton_max_iter = 3 /\ rk.newton_tol = 1
  /\ rk.residuals = <<2, 2, 0>>
  /\ rk.result = "false" /\ ~rk.sln_time_new

\* C28 as stated: a problem declared linear performs exactly one solve.
C28_AsClaimed ==
  (RkRan /\ rk.is_linear) => rk.solves = 1

\* For newton_max_iter >= 1 a call performs at most newton_max_iter
\* solves and at most newton_max_iter + 1 assemblies of the right-hand side;
\* a problem declared linear performs one solve, or none when the residual
\* norm of its only pass exceeds the allowed maximum.
BoundedWork ==
  /\ rk.pc # "call" /\ rk.newton_max_iter >= 1 =>
       /\ rk.solves <= rk.newton_max_iter
       /\ Len(rk.residuals) <= rk.newton_max_iter + 1
  /\ (RkRan /\ rk.is_linear) =>
       /\ Len(rk.residuals) = 1
       /\ rk.solves = IF ResidualExceeded THEN 0 ELSE 1

\* C28: the Newton loop terminates (every call returns), and the work of a
\* call is bounded as BoundedWork says.
C28_LoopTerminates == []BoundedWork /\ <>RkReturned

\* A call that used its whole budget.
C28_Witness ==
  /\ RkRan /\ ~rk.is_linear /\ rk.newton_max_iter = 2
  /\ rk.solves = 2 /\ Len(rk.residuals) = 3


\* C29: a call with an error estimate requested and a tableau that is not
\* embedded ends with the fatal configuration error, before any matrix is
\* created and before any stage weak form is built, assembled or solved.
C29_EmbeddedRequired ==
  (rk.pc # "call" /\ rk.error_fn /\ ~is_embedded(rk.bt)) =>
    /\ RkReturned /\ rk.result = "error"
    /\ rk.matrices = 0 /\ rk.stage_wf = <<>>
    /\ rk.assemblies_left = 0 /\ rk.residuals = <<>> /\ rk.solves = 0
    /\ ~rk.sln_time_new /\ ~rk.error_fn_written

C29_Witness ==
  /\ RkReturned /\ rk.error_fn /\ ~is_embedded(rk.bt)
  /\ rk.matrix_solver = "SOLVER_UMFPACK" /\ rk.neq = 1
  /\ rk.error = "rk_time_step(): R-K method must be embedded if temporal error estimate is requested."

(***************************************************************************)
(* Claims on the backend calls of prepare_sparse_structure.                *)
(***************************************************************************)
\* free(), prealloc(ndof), then pre_add_ij calls, then at most one alloc()
\* as the last call; no zero().
RebuildOrder(ops) ==
  /\ Len(ops) >= 2
  /\ ops[1] = "free"
  /\ ops[2] = "prealloc"
  /\ \A k \in 3..Len(ops) :
       ops[k] = "pre_add_ij" \/ (k = Len(ops) /\ ops[k] = "alloc")

\* C30: every prepare_sparse_structure call with a non-null matrix that
\* returns took exactly one of the two paths: zero-only, whose only backend
\* call on the matrix is zero(), or rebuild, whose backend calls are free(),
\* prealloc(ndof), zero or more pre_add_ij and one alloc() at the end, with
\* no zero(); a call that an exception ends inside the rebuild has issued
\* the calls of a rebuild up to that point, and no alloc().
C30_TwoPaths ==
  (last_call.path # "none" /\ last_call.mat # 0) =>
    \/ /\ last_call.path = "zero"
       /\ last_call.mat_ops = <<"zero">>
    \/ /\ last_call.path = "rebuild"
       /\ RebuildOrder(last_call.mat_ops)
       /\ last_call.mat_ops[Len(last_call.mat_ops)] = "alloc"
       /\ mats[last_call.mat].status = "alloc"
       /\ mats[last_call.mat].size = get_num_dofs
       /\ (mats[last_call.mat].pattern # {}) =
            (\E k \in 1..Len(last_call.mat_ops) : last_call.mat_ops[k] = "pre_add_ij")
    \/ /\ last_call.path = "failed"
       /\ RebuildOrder(last_call.mat_ops)
       /\ \A k \in 1..Len(last_call.mat_ops) : last_call.mat_ops[k] # "alloc"

C30_Witness ==
  /\ last_call.path = "rebuild"
  /\ last_call.mat # 0
  /\ last_call.mat_ops = <<"free", "prealloc", "pre_add_ij", "alloc">>
  /\ mats[last_call.mat].pattern # {}

(***************************************************************************)
(* Claims on the registration across element interfaces.                   *)
(***************************************************************************)
\* The DOFs of an assembly list that are not negative.
FreeDofs(al) == { al[x] : x \in { u \in 1..Len(al) : al[u] >= 0 } }

\* The cross-element positions the claim gives for one traversal state: for
\* every pair (m, el), every neighbour across a non-boundary edge of the
\* element of el (none when el has no element), the positions (DOF of m's
\* element, DOF of the neighbour) when blocks[m][el], and the transposed
\* positions when blocks[el][m].
ClaimedDGPositions(current_state, blocks) ==
  { pos \in (0..(get_num_dofs - 1)) \X (0..(get_num_dofs - 1)) :
      \E m \in 0..(spaces_size - 1), el \in 0..(spaces_size - 1) :
        /\ current_state.e[m + 1] # 0
        /\ current_state.e[el + 1] # 0
        /\ \E neigh \in Neighbors(current_state.e[el + 1]) :
             LET am == FreeDofs(get_element_assembly_list(m, current_state.e[m + 1]))
                 an == FreeDofs(get_element_assembly_list(el, neigh))
             IN  \/ blocks[m][el] /\ pos[1] \in am /\ pos[2] \in an
                 \/ blocks[el][m] /\ pos[1] \in an /\ pos[2] \in am }

\* C31: for every traversal state, also one in which some component has no
\* element, the pass over the neighbours completes and registers exactly
\* the cross-element positions of the true block entries.
C31_InterfacePositions ==
  sel.pc = "dg_done" =>
    /\ ~sel.crashed
    /\ sel.positions = ClaimedDGPositions(sel.state, get_blocks(wf, force_diagonal_blocks))

\* In a state where every component has an element the pass registers
\* exactly the claimed positions.
InterfacePositionsOfCompleteStates ==
  (sel.pc = "dg_done" /\ ~DereferencesNull(sel.state)) =>
    /\ ~sel.crashed
    /\ sel.positions = ClaimedDGPositions(sel.state, get_blocks(wf, force_diagonal_blocks))

(***************************************************************************)
(* Claims on the edge infos of update_constrained_nodes.                   *)
(***************************************************************************)
\* The intervals of a set of edge infos partition [-1, 1]: they start at -1,
\* end at 1, each but the last is continued by another one, and no two
\* overlap.
PartitionsEdge(infos) ==
  /\ \A a \in infos : a.lo < a.hi
  /\ \E a \in infos : a.lo = -IntervalUnit
  /\ \A a \in infos : a.hi = IntervalUnit \/ \E b \in infos : b.lo = a.hi
  /\ \A a, b \in infos : a # b => (a.hi <= b.lo \/ b.hi <= a.lo)

\* C32: the halves of an edge info (node, part p, [lo, hi], orientation o)
\* have parts 2(p+1) and 2(p+1)+1, intervals [lo, mid] and [mid, hi] with
\* mid = (lo+hi)/2, and the node and orientation of the edge info; the edge
\* info made where the constraint starts has part -1 and interval [-1, 1];
\* the edge infos of distinct sub-segments of the edge, at every depth,
\* have distinct parts, and the sub-segments not bisected further partition
\* [-1, 1].
C32_HalfEdgeInfos ==
  mg.pc = "segments" =>
    /\ mg.last # <<>> =>
         LET p == mg.last[1]
             h0 == mg.last[2]
             h1 == mg.last[3]
         IN  /\ h0.part = 2 * (p.part + 1) /\ h1.part = 2 * (p.part + 1) + 1
             /\ h0.lo = p.lo /\ h1.hi = p.hi
             /\ h0.hi = h1.lo /\ 2 * h0.hi = p.lo + p.hi
             /\ h0.node = p.node /\ h1.node = p.node
             /\ h0.ori = p.ori /\ h1.ori = p.ori
    /\ \A a \in mg.all :
         SplitDepth(a) = 0 => (a.part = -1 /\ a.lo = -IntervalUnit /\ a.hi = IntervalUnit)
    /\ \A a, b \in mg.all : (a.lo # b.lo \/ a.hi # b.hi) => a.part # b.part
    /\ PartitionsEdge(mg.leaves)

C32_Witness ==
  /\ mg.pc = "segments"
  /\ Cardinality(mg.leaves) = 4
  /\ \E a \in mg.leaves : SplitDepth(a) = 3
  /\ \E a \in mg.leaves : SplitDepth(a) = 1

\* C33: an active element stores, for each edge info (node, part p,
\* orientation o) it is given, base = node and part = p if o = 0, the
\* bitwise complement of p if o = 1; every part given to an active element
\* is >= 0, and the decoding of get_boundary_assembly_list_internal gives
\* back (o, p).
C33_PartRoundTrip ==
  (mg.pc = "applied" /\ mg.order # 0) =>
    LET at == { i \in 1..4 : mg.ei[i].present }
    IN  /\ Len(mg.edges) = Cardinality(at)
        /\ \A i \in at :
             /\ mg.ei[i].part >= 0
             /\ \E k \in 1..Len(mg.edges) :
                  /\ mg.edges[k].en = 4 + i
                  /\ mg.edges[k].base = mg.ei[i].node
                  /\ mg.edges[k].part = IF mg.ei[i].ori = 0 THEN mg.ei[i].part
                                        ELSE -mg.ei[i].part - 1
                  /\ mg.decoded[k].ori = mg.ei[i].ori
                  /\ mg.decoded[k].part = mg.ei[i].part

C33_Witness ==
  /\ mg.pc = "applied" /\ mg.order # 0
  /\ \E i \in 1..4 : mg.ei[i].present /\ mg.ei[i].ori = 1 /\ mg.ei[i].part = 0
  /\ \E i \in 1..4 : mg.ei[i].present /\ mg.ei[i].ori = 0 /\ mg.ei[i].part > 1

\* The (call, edge slot) pairs in which an edge info is handed to a son.
HandedAt(calls, info) ==
  { <<k, x>> \in (1..Len(calls)) \X (1..4) : calls[k][2][x] = info }

\* The edge infos a split element has to hand on: the two halves of the edge
\* info of an edge that the split bisects, the whole edge info of an edge
\* that a 2-way split of a quad leaves whole.
ToHandOn(el, eis) ==
  UNION { IF ~eis[i + 1].present THEN {}
          ELSE IF HasMidEdgeVertex(el, i)
               THEN {HalfEdgeInfo(eis[i + 1], 0), HalfEdgeInfo(eis[i + 1], 1)}
               ELSE {eis[i + 1]} : i \in 0..(Len(el.vn) - 1) }

\* C34: in each of the four split topologies every edge info of the parent
\* (each half of a bisected edge, each whole edge info of an edge left
\* unsplit) is handed to exactly one son in exactly one edge slot, nothing
\* else is handed to a son, every son is called once, and the interior son
\* of a split triangle receives none.
C34_EachEdgeInfoToOneSon ==
  mg.pc = "recurring" =>
    LET el == ElementOfMode(mg.mode, mg.sons)
        due == ToHandOn(el, mg.eis)
    IN  /\ \A info \in due : Cardinality(HandedAt(mg.calls, info)) = 1
        /\ \A k \in 1..Len(mg.calls) : \A x \in 1..4 :
             mg.calls[k][2][x].present => mg.calls[k][2][x] \in due
        /\ Cardinality(due) = SumPassed(mg.calls, 1)
        /\ { mg.calls[k][1] : k \in 1..Len(mg.calls) } = { y \in 1..4 : mg.sons[y] # 0 }
        /\ Len(mg.calls) = Cardinality({ y \in 1..4 : mg.sons[y] # 0 })
        /\ mg.mode = "tri" => PresentInfos(mg.calls[4][2]) = 0

C34_Witness ==
  /\ mg.pc = "recurring" /\ mg.mode = "quad" /\ mg.sons = <<1, 2, 0, 0>>
  /\ \A x \in 1..4 : mg.eis[x].present
  /\ mg.eis[1].part >= 0 /\ mg.eis[2].part = -1

(***************************************************************************)
(* Claims on the flame tutorial test.                                      *)
(***************************************************************************)
\* C35: every pass assembles into the same matrix and right-hand side; the
\* Newton loop of a time step is left only with a residual norm below
\* NEWTON_TOL; the iteration count never passes NEWTON_MAX_ITER, because the
\* pass of iteration NEWTON_MAX_ITER that has not converged ends the run
\* with an error after its solve; a time step performs at most
\* NEWTON_MAX_ITER linear solves.
C35_FlameNewtonLoop ==
  rk.pc \in {"flame", "aborted", "finished"} =>
    /\ rk.assembled_into \in {<<>>, <<1, 1>>}
    /\ rk.left_with # -1 => rk.left_with < NEWTON_TOL
    /\ rk.it <= NEWTON_MAX_ITER
    /\ rk.solves <= NEWTON_MAX_ITER
    /\ rk.error = "Newton method did not converge." =>
         (rk.it = NEWTON_MAX_ITER /\ rk.solves = NEWTON_MAX_ITER)
    /\ (rk.pc = "flame" /\ rk.left_with = -1) => rk.solves = rk.it - 1

C35_Witness ==
  /\ rk.pc = "aborted"
  /\ rk.error = "Newton method did not converge."
  /\ rk.solves = NEWTON_MAX_ITER
  /\ rk.ts = 3

(***************************************************************************)
(* Claims on the soundness of the sparse-structure cache.                  *)
(***************************************************************************)
\* The pattern a full rebuild makes in the current state.
RebuiltPattern == RegisteredPositions(CurrentStates, Len(CurrentStates))

\* C36: whenever prepare_sparse_structure takes the zero-only path for a
\* matrix, the nonzero pattern the matrix has is the pattern a full rebuild
\* would make at that moment.
C36_ZeroOnlyPatternCurrent ==
  last_call.path = "zero" =>
    /\ mats[last_call.mat].status = "alloc"
    /\ mats[last_call.mat].pattern = RebuiltPattern

\* The calls of set_spaces so far have stored the identifiers of the spaces
\* (the first call stores -1 for every space).
StoredIdentifiers == sp_seq # <<>> /\ \A k \in 1..Len(sp_seq) : sp_seq[k] # -1

\* The identifier stored for some space differs from the one it has now.
StoredDiffers ==
  sp_seq # <<>> /\ \E k \in 1..Len(sp_seq) : sp_seq[k] # space_seq[k]

\* What a set_spaces call does to the flags.
SetSpacesStep ==
  /\ matrix_structure_reusable' = (matrix_structure_reusable /\ ~StoredDiffers)
  /\ vector_structure_reusable' = (vector_structure_reusable /\ ~StoredDiffers)
  /\ StoredIdentifiers => (sp_seq = seq_at_set /\ (StoredDiffers <=> seq_at_set # space_seq))
  /\ (sp_seq # <<>> /\ ~StoredIdentifiers) => StoredDiffers

\* C37 as stated: a prepare_sparse_structure call on the matrix of the
\* previous returned call, with no set_spaces call in between that saw an
\* identifier other than at the set_spaces call before it, does not rebuild.
C37_AsClaimed ==
  (Quiet /\ last_call.mat # 0 /\ last_call.prior_mat = last_call.mat
     /\ ~last_call.seq_diff)
    => last_call.path = "zero"

\* C37: set_spaces clears the reusable flags exactly when the identifier
\* stored for some space differs from the one the space has now; from the
\* second call on the stored identifier is the one the space had at the
\* previous set_spaces call, and a call with unchanged spaces leaves the
\* flags as they are; the first call stores -1 for every space, so the
\* second call clears the flags whatever the spaces.
C37_SetSpacesClearsOnDifference == [][set_spaces => SetSpacesStep]_vars

C37_Witness ==
  /\ Quiet /\ ~last_call.quiet
  /\ last_call.mat # 0 /\ last_call.prior_mat = last_call.mat
  /\ last_call.path = "zero"
  /\ StoredIdentifiers /\ sp_seq = space_seq /\ seq_at_set = space_seq
  /\ \E k \in 1..Len(space_seq) : space_seq[k] = 1

(***************************************************************************)
(* Claims on cloneMembers.                                                 *)
(***************************************************************************)
\* The number of forms of a kind in a list of forms.
FormsOfKind(forms, kind) == Cardinality({ i \in 1..Len(forms) : forms[i].kind = kind })

\* The number of places a form object has in the six typed lists.
PlacesInTypedLists(w, id) ==
  LET places(kind) == Cardinality({ i \in 1..Len(w[kind]) : w[kind][i] = id })
  IN  places("mfvol") + places("mfsurf") + places("mfDG")
        + places("vfvol") + places("vfsurf") + places("vfDG")

\* The registry is a faithful copy of the registry it has cloned.
FaithfulClone(w, other_forms) ==
  /\ Len(w.forms) = Len(other_forms)
  /\ \A kind \in FormKinds : Len(w[kind]) = FormsOfKind(other_forms, kind)
  /\ \A k \in 1..Len(w.forms) :
       /\ k <= Len(other_forms)
       /\ w.heap[w.forms[k]].kind = other_forms[k].kind
       /\ w.heap[w.forms[k]].fn = other_forms[k].fn
       /\ w.heap[w.forms[k]].scaling_factor = other_forms[k].scaling_factor
       /\ w.heap[w.forms[k]].stage_time = other_forms[k].stage_time
       /\ w.heap[w.forms[k]].u_ext_offset = other_forms[k].u_ext_offset
       /\ PlacesInTypedLists(w, w.forms[k]) = 1
       /\ w.heap[w.forms[k]].wf = "this"
  /\ \A kind \in FormKinds : \A i \in 1..Len(w[kind]) :
       /\ w.heap[w[kind][i]].kind = kind
       /\ \E k \in 1..Len(w.forms) : w.forms[k] = w[kind][i]

\* C38: after cloneMembers(other) the registry holds as many forms of every
\* kind as other, the k-th form of the general list is a clone of other's
\* k-th form with the copied base fields, it is in exactly one typed list,
\* and every form refers back to the cloning registry.
C38_CloneMembersFaithful ==
  reg.pc = "cloned" => FaithfulClone(reg.this, reg.before.forms)

\* The same for a registry none of whose forms is a VectorFormDG.
CloneFaithfulWithoutVectorDG ==
  (reg.pc = "cloned" /\ FormsOfKind(reg.before.forms, "vfDG") = 0)
    => FaithfulClone(reg.this, reg.before.forms)

(***************************************************************************)
(* Claims on the assemble-everywhere flag.                                 *)
(***************************************************************************)
\* C39: after a run of processFormMarkers that returned, a volume or surface
\* form has its assemble-everywhere flag set if and only if its area list
\* contains the wildcard.
C39_EverywhereIffWildcard ==
  (AfterProcessFormMarkers /\ ~reg.last.threw)
    => \A f \in ProcessedForms : f[1].assembleEverywhere <=> HasWildcard(f[1])

\* The flag is set for every form with the wildcard, and a form that never
\* had the wildcard at a run does not have it set.
EverywhereIfWildcard ==
  (AfterProcessFormMarkers /\ ~reg.last.threw)
    => \A f \in ProcessedForms : HasWildcard(f[1]) => f[1].assembleEverywhere

(***************************************************************************)
(* Claims on the marker cache of EssentialBCs.                             *)
(***************************************************************************)
\* The markers the conditions of all describe, the wildcard included, with
\* the condition of each.
Described(all) ==
  { p \in (1..Len(all)) \X (1..2) : p[2] <= Len(all[p[1]]) }

\* The conditions added describe a marker twice, or hold the wildcard
\* together with another marker or another wildcard.
Conflicting(all) ==
  \/ \E p, q \in Described(all) : p # q /\ all[p[1]][p[2]] = all[q[1]][q[2]]
  \/ \E p, q \in Described(all) : p # q /\ all[p[1]][p[2]] = HERMES_ANY

\* The cache holds the markers of the conditions, each with its condition.
CacheOf(b) ==
  /\ Len(b.BCs) = Len(b.markers)
  /\ \A i, j \in 1..Len(b.markers) : i # j => b.markers[i] # b.markers[j]
  /\ \A i \in 1..Len(b.markers) :
       /\ b.markers[i] # HERMES_ANY
       /\ b.BCs[i] \in 1..Len(b.all)
       /\ \E n \in 1..Len(b.all[b.BCs[i]]) : b.all[b.BCs[i]][n] = b.markers[i]
  /\ \A p \in Described(b.all) :
       IF b.all[p[1]][p[2]] = HERMES_ANY
       THEN b.HermesAnyBC = p[1]
       ELSE \E i \in 1..Len(b.markers) :
              b.markers[i] = b.all[p[1]][p[2]] /\ b.BCs[i] = p[1]
  /\ b.HermesAnyBC # 0 => (b.markers = <<>> /\ b.all[b.HermesAnyBC] = <<HERMES_ANY>>)

\* get_boundary_condition gives the wildcard condition if there is one, else
\* the condition of the marker, else nullptr.
LookupOf(b) ==
  \A marker \in {"Bdy1", "Bdy2", "Bdy3", HERMES_ANY} :
    get_boundary_condition(b, marker) =
      IF \E k \in 1..Len(b.all) : b.all[k] = <<HERMES_ANY>>
      THEN CHOOSE k \in 1..Len(b.all) : b.all[k] = <<HERMES_ANY>>
      ELSE IF \E p \in Described(b.all) : b.all[p[1]][p[2]] = marker
           THEN (CHOOSE p \in Described(b.all) : b.all[p[1]][p[2]] = marker)[1]
           ELSE 0

\* C40: after add operations that all returned the marker cache is
\* consistent (markers pairwise distinct, one condition per marker, no
\* wildcard together with a marker) and get_boundary_condition gives the
\* wildcard condition, else the condition of the marker, else nullptr; an add
\* is rejected with an exception exactly if the conditions then describe a
\* marker twice or hold the wildcard together with another marker or with
\* another wildcard.
C40_MarkerCacheConsistent ==
  sp.pc = "bcs" =>
    /\ sp.last.op # "none" => (sp.last.threw <=> Conflicting(sp.all))
    /\ ~sp.last.failed => (CacheOf(sp) /\ LookupOf(sp))

C40_Witness ==
  /\ sp.pc = "bcs"
  /\ ~sp.last.failed
  /\ Len(sp.all) = 3
  /\ Len(sp.markers) = 2
  /\ sp.markers[1] # sp.markers[2]
  /\ get_boundary_condition(sp, sp.markers[2]) = sp.BCs[2]
====
